---- MODULE Spec2Model ----
(***************************************************************************)
(* DMX-Monitor: the sACN source arbitrator (src/protocols/sacn.ts) and the *)
(* recording codec and playback engine (src/recorder.ts).                  *)
(*                                                                         *)
(* Each class is one record-valued variable whose fields carry the names   *)
(* of the class's private fields.  `now` is Date.now().  The variables     *)
(* `emitted` and `lastOp` observe what the last handler did (the events it *)
(* emitted, its arguments) and `sentTo` the universes every tracked source *)
(* has sent to; `written` observes the frames recordFrame has written and  *)
(* `played` the channel arrays the frame timer has produced since playback *)
(* last started from the beginning.  The program reads none of them.       *)
(* `disk` is the content of the recording file.  `artnet` is the Art-Net   *)
(* handler (src/protocols/artnet.ts) and `decoded` observes the channel    *)
(* array of the last packet it emitted for each universe; `discovery`      *)
(* observes the ArtPoll datagrams it sent and what its discoveries         *)
(* returned.  `tx` holds the transmitters (src/transmitter.ts) and `wire`  *)
(* the datagram the Art-Net transmitter sent last, until it is received.   *)
(***************************************************************************)
EXTENDS Integers, Sequences, FiniteSets, TLC

VARIABLES handler, now, emitted, lastOp, sentTo,
          recorder, player, disk, written, played,
          artnet, decoded, discovery, tx, wire

sacnVars == <<handler, sentTo>>

recVars == <<recorder, player, disk, written, played>>

txVars == <<tx, wire>>

artnetVars == <<artnet, decoded, discovery, txVars>>

vars == <<handler, now, emitted, lastOp, sentTo, recorder, player, disk, written, played,
          artnet, decoded, discovery, tx, wire>>

(***************************************************************************)
(* Bounds of the model                                                     *)
(***************************************************************************)
\* the clock stops advancing here
MaxTime == 7500
\* cap of the packets counted in discoveredUniverses (the sum of packetCount)
MaxPackets == 4
\* the same cap where senders use two universes
MaxPacketsTwoUniverses == 3
\* the same cap where the sweep is scheduled fairly
MaxPacketsFair == 2
\* cap of the frames written to one recording (DMXRecorder.frameCount)
MaxFrames == 3
\* the same cap where the player also seeks
MaxFramesSeek == 3
\* the same cap where every control of the player is used
MaxFramesPlayer == 2
\* cap of the recordings one DMXRecorder makes, and of the frames of each
MaxRecordings == 2
MaxFramesEach == 2
\* cap of the ArtDmx datagrams the Art-Net receiver accepts
MaxArtNetPackets == 2
\* the clock stops advancing here while the Art-Net receiver runs
MaxArtNetTime == 2500
\* cap of the datagrams the Art-Net transmitter sends
MaxSends == 257
\* cap of the calls of startDiscovery
MaxDiscoveryCalls == 3
\* cap of the frames of a recording where every component is stopped
MaxFramesStop == 1

\* amounts by which Date.now() advances between two callbacks
TickSteps == {2500}

(***************************************************************************)
(* Constants of the program                                                *)
(***************************************************************************)
SOURCE_TIMEOUT_MS == 5000
DEFAULT_PRIORITY == 100
MAX_UNIVERSE == 63999

\* an absent string field (undefined / null)
NULL == "<null>"
\* an absent packet.priority
NoPriority == -1

(***************************************************************************)
(* Inputs: the senders on the network and what they send                   *)
(***************************************************************************)
\* one sender per branch of getSourceKey
Senders ==
    { [cid |-> "c1d0", sourceName |-> "Desk",  sourceAddress |-> "10.0.0.1"],
      [cid |-> "",     sourceName |-> "Desk",  sourceAddress |-> "10.0.0.2"],
      [cid |-> "",     sourceName |-> NULL,    sourceAddress |-> NULL] }

PacketPriorities == {NoPriority, 150}

PacketUniverses == {1, 2, 64000}

PacketsFor(universes) ==
    { [universe |-> u, sourceName |-> s.sourceName, sourceAddress |-> s.sourceAddress,
       cid |-> s.cid, priority |-> p] :
          u \in universes, s \in Senders, p \in PacketPriorities }

Packets == PacketsFor(PacketUniverses)

\* the traffic when every sender uses universe 1
PacketsOneUniverse == PacketsFor({1, 64000})

(***************************************************************************)
(* types.ts                                                                *)
(***************************************************************************)
isValidUniverse(universe) == universe >= 0 /\ universe <= MAX_UNIVERSE

(***************************************************************************)
(* SACNHandler                                                             *)
(*                                                                         *)
(* handler.sources is the Map<string, SACNSourceInfo> as the sequence of   *)
(* its entries in insertion order (the order a JavaScript Map iterates     *)
(* in); every entry carries its key.                                       *)
(***************************************************************************)
\* x ?? d
Coalesce(x, d) == IF x = NULL THEN d ELSE x

getSourceKey(packet) ==
    IF packet.cid # "" THEN packet.cid
    ELSE IF packet.sourceAddress # NULL
         THEN Coalesce(packet.sourceName, "Unknown") \o "@" \o packet.sourceAddress
         ELSE Coalesce(packet.sourceName, "Unknown")

\* Map.has / Map.get
HasKey(sources, key) == \E i \in 1..Len(sources) : sources[i].key = key

IndexOf(sources, key) == CHOOSE i \in 1..Len(sources) : sources[i].key = key

\* Map.set: an existing key keeps its place, a new key goes last
MapSet(sources, info) ==
    IF HasKey(sources, info.key)
    THEN [sources EXCEPT ![IndexOf(sources, info.key)] = info]
    ELSE Append(sources, info)

\* the scan with ">=" for ">": the last of the highest-priority entries wins
RECURSIVE ScanHighest_LastWins(_, _, _)
ScanHighest_LastWins(sources, i, best) ==
    IF i > Len(sources) THEN best
    ELSE ScanHighest_LastWins(sources, i + 1,
            IF sources[i].priority >= best.priority
            THEN [priority |-> sources[i].priority, source |-> sources[i].key]
            ELSE best)

\* the loop "if (info.priority > highestPriority)" from entry i on, with the
\* running maximum best = [priority, source]
RECURSIVE ScanHighest(_, _, _)
ScanHighest(sources, i, best) ==
    IF i > Len(sources) THEN best
    ELSE ScanHighest(sources, i + 1,
            IF sources[i].priority > best.priority
            THEN [priority |-> sources[i].priority, source |-> sources[i].key]
            ELSE best)

FindHighestPrioritySource(sources) ==
    ScanHighest(sources, 1, [priority |-> -1, source |-> NULL]).source

\* the flag set for the new active source and never cleared for the old one
MarkActive_Sticky(sources, highestPrioritySource) ==
    [i \in 1..Len(sources) |->
        [sources[i] EXCEPT !.isActive = (@ \/ sources[i].key = highestPrioritySource)]]

\* the loop "info.isActive = name === highestPrioritySource"
MarkActive(sources, highestPrioritySource) ==
    [i \in 1..Len(sources) |->
        [sources[i] EXCEPT !.isActive = (sources[i].key = highestPrioritySource)]]

\* Array.prototype.sort((a, b) => b.priority - a.priority), which is stable:
\* insertion of every entry after the entries of greater or equal priority
RECURSIVE SortByPriority(_)
SortByPriority(list) ==
    IF list = <<>> THEN <<>>
    ELSE LET rest == SortByPriority(SubSeq(list, 1, Len(list) - 1))
             x    == list[Len(list)]
             k    == Cardinality({i \in 1..Len(rest) : rest[i].priority >= x.priority})
         IN SubSeq(rest, 1, k) \o <<x>> \o SubSeq(rest, k + 1, Len(rest))

getSources(sources) == SortByPriority(sources)

\* the event emitSourcesChanged() emits
SourcesChangedEvent(sources) ==
    [event |-> "sourcesChanged", sources |-> getSources(sources)]

\* the notification sent for a change of the active source only
NeedsSourcesChanged_ActiveOnly(wasNewSource, activeChanged) == activeChanged

\* "if (wasNewSource || activeChanged)"
NeedsSourcesChanged(wasNewSource, activeChanged) == wasNewSource \/ activeChanged

\* the packet's priority compared instead of its key
IsFromActiveSource_ByPriority(sources, sourceKey, highestPrioritySource) ==
    \E i, j \in 1..Len(sources) :
        /\ sources[i].key = sourceKey
        /\ sources[j].key = highestPrioritySource
        /\ sources[i].priority >= sources[j].priority

\* "return sourceKey === highestPrioritySource"
IsFromActiveSource(sources, sourceKey, highestPrioritySource) ==
    sourceKey = highestPrioritySource

\* updateSourceTracking: the handler after the call, the events it emitted and
\* the value it returned
updateSourceTracking(h, sourceKey, sourceName, sourceAddress, priority, time) ==
    LET wasNewSource == ~HasKey(h.sources, sourceKey)
        sourceInfo == [key |-> sourceKey, sourceName |-> sourceName,
                       sourceAddress |-> sourceAddress, priority |-> priority,
                       lastSeen |-> time, isActive |-> FALSE]
        stored == MapSet(h.sources, sourceInfo)
        highestPrioritySource == FindHighestPrioritySource(stored)
        marked == MarkActive(stored, highestPrioritySource)
        activeChanged == h.activeSource # highestPrioritySource
    IN [h |-> [h EXCEPT !.sources = marked, !.activeSource = highestPrioritySource],
        events |-> IF NeedsSourcesChanged(wasNewSource, activeChanged)
                   THEN <<SourcesChangedEvent(marked)>> ELSE <<>>,
        shouldEmit |-> IsFromActiveSource(marked, sourceKey, highestPrioritySource)]

\* every packet sets a new entry
UpdateUniverseInfo_Replace(info, packet) ==
    [packetCount |-> 1, source |-> packet.sourceName]

\* the discoveredUniverses entry after a packet for that universe; an entry
\* with packetCount 0 stands for "no entry" (UniverseInfo.lastSeen, which
\* nothing reads, is left out)
UpdateUniverseInfo(info, packet) ==
    IF info.packetCount = 0
    THEN [packetCount |-> 1, source |-> packet.sourceName]
    ELSE [packetCount |-> info.packetCount + 1,
          source |-> IF packet.sourceName # NULL THEN packet.sourceName ELSE info.source]

RECURSIVE SumCounts(_, _)
SumCounts(table, universes) ==
    IF universes = {} THEN 0
    ELSE LET u == CHOOSE x \in universes : TRUE
         IN table[u].packetCount + SumCounts(table, universes \ {u})

TotalPacketCount(h) == SumCounts(h.discoveredUniverses, DOMAIN h.discoveredUniverses)

NoUniverseInfo == [packetCount |-> 0, source |-> NULL]

TrackedUniverses == {u \in PacketUniverses : isValidUniverse(u)}

\* the timeout taken for seconds
IsStale_Seconds(info, time) == time - info.lastSeen > SOURCE_TIMEOUT_MS * 1000

\* the timeout reached, not exceeded
IsStale_Inclusive(info, time) == time - info.lastSeen >= SOURCE_TIMEOUT_MS

\* the "stale" test of cleanupStaleSources
IsStale(info, time) == time - info.lastSeen > SOURCE_TIMEOUT_MS

RemoveStale(sources, time) == SelectSeq(sources, LAMBDA info : ~IsStale(info, time))

\* the keys the senders are tracked under
SourceKeys == {getSourceKey(packet) : packet \in Packets}

NoneSentTo == [k \in SourceKeys |-> {}]

\* nothing observed yet of the recorder and of the player
NothingWritten ==
    [frames |-> <<>>, skipped |-> FALSE, skippedAt |-> -1, recordings |-> 0]

NothingPlayed == [uninterrupted |-> FALSE, frames |-> <<>>]

HandlerInit ==
    [isRunning |-> FALSE,
     sources |-> <<>>,
     activeSource |-> NULL,
     discoveredUniverses |-> [u \in TrackedUniverses |-> NoUniverseInfo],
     sourceCleanupTimer |-> FALSE]

(***************************************************************************)
(* recorder.ts: bytes and buffers                                          *)
(*                                                                         *)
(* A Buffer or Uint8Array is the sequence of its bytes; the byte at offset *)
(* o of buffer b is b[o + 1].  The channel array is scaled down from 512   *)
(* channels to TOTAL_CHANNELS and the write buffer from 64 KB to           *)
(* WRITE_BUFFER_SIZE bytes, so that several frames overflow it.            *)
(***************************************************************************)
TOTAL_CHANNELS == 2
WRITE_BUFFER_SIZE == 6
HEADER_SIZE == 32
SNAPSHOT_INTERVAL == 5000
DMXREC_VERSION == 1
HAS_SNAPSHOTS == 1
FrameType_SNAPSHOT == 254
FrameType_EXTENDED == 255

\* "DMXR" in ASCII
DMXREC_MAGIC == <<68, 77, 88, 82>>

\* the value every channel takes
ChannelValues == {0, 255}

ChannelArrays == [1..TOTAL_CHANNELS -> ChannelValues]
\* the channel arrays given to recordFrame where the player also seeks: all
\* channels dark, or the last one full
SeekChannelArrays ==
    {[i \in 1..TOTAL_CHANNELS |-> 0],
     [i \in 1..TOTAL_CHANNELS |-> IF i = TOTAL_CHANNELS THEN 255 ELSE 0]}

ZeroChannels == [i \in 1..TOTAL_CHANNELS |-> 0]

\* seek targets, in ms
SeekTargets == {0, 1250, 2500, 3750, 5000, 7500}
\* the positions given to seek where every control of the player is used
PlayerSeekTargets == {1250, 5000}

\* buffer[offset], undefined past the end
Undefined == -1

ByteAt(buffer, offset) ==
    IF offset >= 0 /\ offset < Len(buffer) THEN buffer[offset + 1] ELSE Undefined

\* writeUInt16LE / writeUInt32LE / writeBigInt64LE of a non-negative value
UInt16LE(value) == <<value % 256, (value \div 256) % 256>>

UInt32LE(value) ==
    <<value % 256, (value \div 256) % 256, (value \div 65536) % 256,
      (value \div 16777216) % 256>>

BigInt64LE(value) == UInt32LE(value) \o <<0, 0, 0, 0>>

\* readUInt16LE / readUInt32LE / readBigInt64LE
ReadUInt16LE(buffer, offset) ==
    ByteAt(buffer, offset) + 256 * ByteAt(buffer, offset + 1)

ReadUInt32LE(buffer, offset) ==
    ByteAt(buffer, offset) + 256 * ByteAt(buffer, offset + 1)
      + 65536 * ByteAt(buffer, offset + 2) + 16777216 * ByteAt(buffer, offset + 3)

\* encodeVarint of a value below 2^31, where "value & 0x7F" is value % 128 and
\* "value >>>= 7" is a division by 128
RECURSIVE encodeVarint(_)
encodeVarint(value) ==
    IF value > 127
    THEN <<(value % 128) + 128>> \o encodeVarint(value \div 128)
    ELSE <<value % 128>>

\* The bitwise operators of JavaScript work on 32-bit integers in two's
\* complement.  Such an integer is taken apart into the set of the positions
\* of its one bits, 0 the lowest and 31 the sign, and put together again.
RECURSIVE BitsFrom(_, _)
BitsFrom(value, k) ==
    IF value = 0 THEN {}
    ELSE (IF value % 2 = 1 THEN {k} ELSE {}) \cup BitsFrom(value \div 2, k + 1)

Int32Bits(value) ==
    IF value < 0
    THEN BitsFrom((value + 1073741824) + 1073741824, 0) \cup {31}
    ELSE BitsFrom(value, 0)

\* the value of the bits k..30
RECURSIVE LowBitsValue(_, _)
LowBitsValue(bits, k) ==
    IF k > 30 THEN 0
    ELSE (IF k \in bits THEN 1 ELSE 0) + 2 * LowBitsValue(bits, k + 1)

Int32Of(bits) ==
    IF 31 \in bits
    THEN (LowBitsValue(bits, 0) - 1073741824) - 1073741824
    ELSE LowBitsValue(bits, 0)

\* "value | ((byte & 0x7F) << shift)": the shift count is taken modulo 32
\* and the bits shifted past bit 31 are lost
OrShifted(value, byte, shift) ==
    Int32Of(Int32Bits(value)
              \cup ({k + (shift % 32) : k \in BitsFrom(byte % 128, 0)} \cap (0..31)))

\* the loop of decodeVarint from the state [value, shift, bytesRead]
RECURSIVE DecodeVarintLoop(_, _, _)
DecodeVarintLoop(buffer, offset, st) ==
    IF offset + st.bytesRead < Len(buffer)
    THEN LET byte == ByteAt(buffer, offset + st.bytesRead)
             next == [value |-> OrShifted(st.value, byte, st.shift),
                      shift |-> st.shift + 7,
                      bytesRead |-> st.bytesRead + 1]
         IN IF byte < 128 THEN next ELSE DecodeVarintLoop(buffer, offset, next)
    ELSE st

decodeVarint(buffer, offset) ==
    LET st == DecodeVarintLoop(buffer, offset, [value |-> 0, shift |-> 0, bytesRead |-> 0])
    IN [value |-> st.value, bytesRead |-> st.bytesRead]

(***************************************************************************)
(* DMXRecorder.  The operators below take and return w = [rec, disk]: the  *)
(* recorder object and the file it writes.  rec.writeBuffer holds the      *)
(* bytes below writeOffset, so writeOffset is its length.                  *)
(***************************************************************************)
writeOffset(rec) == Len(rec.writeBuffer)

\* flushBuffer that leaves writeOffset where it is
flushBuffer_KeepOffset(w) ==
    IF writeOffset(w.rec) > 0 /\ w.rec.fileHandle # NULL
    THEN [rec |-> [w.rec EXCEPT !.bytesWritten = @ + writeOffset(w.rec)],
          disk |-> w.disk \o w.rec.writeBuffer]
    ELSE w

flushBuffer(w) ==
    IF writeOffset(w.rec) > 0 /\ w.rec.fileHandle # NULL
    THEN [rec |-> [w.rec EXCEPT !.bytesWritten = @ + writeOffset(w.rec),
                                !.writeBuffer = <<>>],
          disk |-> w.disk \o w.rec.writeBuffer]
    ELSE w

appendByte(w, value) ==
    LET f == IF writeOffset(w.rec) >= WRITE_BUFFER_SIZE - 1 THEN flushBuffer(w) ELSE w
    IN [f EXCEPT !.rec.writeBuffer = Append(@, value % 256)]

appendUint16(w, value) ==
    LET f == IF writeOffset(w.rec) >= WRITE_BUFFER_SIZE - 2 THEN flushBuffer(w) ELSE w
    IN [f EXCEPT !.rec.writeBuffer = @ \o UInt16LE(value)]

appendToBuffer(w, data) ==
    LET f == IF writeOffset(w.rec) + Len(data) >= WRITE_BUFFER_SIZE
             THEN flushBuffer(w) ELSE w
    IN IF Len(data) >= WRITE_BUFFER_SIZE
       THEN IF f.rec.fileHandle # NULL
            THEN [rec |-> [f.rec EXCEPT !.bytesWritten = @ + Len(data)],
                  disk |-> f.disk \o data]
            ELSE f
       ELSE [f EXCEPT !.rec.writeBuffer = @ \o data]

\* the loop "for (const change of changes)" of writeDeltaFrame over the
\* changes from..to, in their order.  The range is halved and the first
\* half is evaluated before the second is begun, so that a frame of 512
\* changes is evaluated nine levels deep.
RECURSIVE AppendChanges(_, _, _, _)
AppendChanges(w, changes, from, to) ==
    IF from > to THEN w
    ELSE IF from = to
    THEN appendByte(appendUint16(w, changes[from].channel), changes[from].value)
    ELSE CHOOSE appended \in
            {AppendChanges(half, changes, ((from + to) \div 2) + 1, to) :
                half \in {AppendChanges(w, changes, from, (from + to) \div 2)}} : TRUE

writeDeltaFrame(w, changes, deltaTime) ==
    LET timed == appendToBuffer(w, encodeVarint(deltaTime))
        counted == IF Len(changes) < FrameType_SNAPSHOT
                   THEN appendByte(timed, Len(changes))
                   ELSE appendUint16(appendByte(timed, FrameType_EXTENDED), Len(changes))
    IN AppendChanges(counted, changes, 1, Len(changes))

writeSnapshotFrame(w, channels, deltaTime) ==
    LET timed == appendToBuffer(w, encodeVarint(deltaTime))
        marked == appendByte(timed, FrameType_SNAPSHOT)
    IN appendToBuffer(marked, SubSeq(channels, 1, TOTAL_CHANNELS))

\* the loop stopped one channel early
RECURSIVE ComputeChanges_SkipLast(_, _, _)
ComputeChanges_SkipLast(channels, previousChannels, i) ==
    IF i >= TOTAL_CHANNELS - 1 THEN <<>>
    ELSE (IF channels[i + 1] # previousChannels[i + 1]
          THEN <<[channel |-> i, value |-> channels[i + 1]]>>
          ELSE <<>>)
         \o ComputeChanges_SkipLast(channels, previousChannels, i + 1)

\* the changes in the order of the loop "for (let i = 0; i < TOTAL_CHANNELS; i++)"
\* of recordFrame, from channel i on
RECURSIVE ComputeChanges(_, _, _)
ComputeChanges(channels, previousChannels, i) ==
    IF i >= TOTAL_CHANNELS THEN <<>>
    ELSE (IF channels[i + 1] # previousChannels[i + 1]
          THEN <<[channel |-> i, value |-> channels[i + 1]]>>
          ELSE <<>>)
         \o ComputeChanges(channels, previousChannels, i + 1)

createHeader(rec, duration) ==
    DMXREC_MAGIC
      \o <<DMXREC_VERSION, HAS_SNAPSHOTS, IF rec.protocol = "sacn" THEN 0 ELSE 1>>
      \o UInt16LE(rec.universe)
      \o BigInt64LE(rec.startTime)
      \o UInt32LE(duration)
      \o UInt32LE(rec.frameCount)
      \o <<0, 0, 0, 0, 0, 0, 0>>

\* the first frame not told from the others
NeedsSnapshot_NoFirst(rec, time) ==
    time - rec.lastSnapshotTime >= SNAPSHOT_INTERVAL

\* the interval counted as over only after 5000 ms
NeedsSnapshot_Late(rec, time) ==
    rec.frameCount = 0 \/ time - rec.lastSnapshotTime > SNAPSHOT_INTERVAL

\* "needsSnapshot" of recordFrame
NeedsSnapshot(rec, time) ==
    rec.frameCount = 0 \/ time - rec.lastSnapshotTime >= SNAPSHOT_INTERVAL

\* recordFrame that notes the time of a frame it does not write
recordFrame_TouchOnSkip(w, channels, time) ==
    LET rec == w.rec
        isFirstFrame == rec.frameCount = 0
        deltaTime == IF isFirstFrame THEN 0 ELSE time - rec.lastFrameTime
        changes == ComputeChanges(channels, rec.previousChannels, 0)
    IN IF NeedsSnapshot(rec, time)
       THEN LET s == writeSnapshotFrame(w, channels, deltaTime)
            IN [s EXCEPT !.rec.lastSnapshotTime = time,
                         !.rec.previousChannels = channels,
                         !.rec.lastFrameTime = time,
                         !.rec.frameCount = @ + 1]
       ELSE IF Len(changes) > 0
            THEN LET d == writeDeltaFrame(w, changes, deltaTime)
                 IN [d EXCEPT !.rec.previousChannels = channels,
                              !.rec.lastFrameTime = time,
                              !.rec.frameCount = @ + 1]
            ELSE [w EXCEPT !.rec.lastFrameTime = time]

\* recordFrame(channels) at Date.now() = time, while recording
recordFrame(w, channels, time) ==
    LET rec == w.rec
        isFirstFrame == rec.frameCount = 0
        deltaTime == IF isFirstFrame THEN 0 ELSE time - rec.lastFrameTime
        changes == ComputeChanges(channels, rec.previousChannels, 0)
    IN IF NeedsSnapshot(rec, time)
       THEN LET s == writeSnapshotFrame(w, channels, deltaTime)
            IN [s EXCEPT !.rec.lastSnapshotTime = time,
                         !.rec.previousChannels = channels,
                         !.rec.lastFrameTime = time,
                         !.rec.frameCount = @ + 1]
       ELSE IF Len(changes) > 0
            THEN LET d == writeDeltaFrame(w, changes, deltaTime)
                 IN [d EXCEPT !.rec.previousChannels = channels,
                              !.rec.lastFrameTime = time,
                              !.rec.frameCount = @ + 1]
            ELSE w

RecorderInit ==
    [state |-> "idle",
     filePath |-> NULL,
     fileHandle |-> NULL,
     writeBuffer |-> <<>>,
     previousChannels |-> ZeroChannels,
     startTime |-> 0,
     lastFrameTime |-> 0,
     lastSnapshotTime |-> 0,
     frameCount |-> 0,
     bytesWritten |-> 0,
     protocol |-> "sacn",
     universe |-> 1]

(***************************************************************************)
(* DMXPlayer.  player.header is NoHeader while nothing is loaded (header   *)
(* and frameData are set together).  player.playbackTimer is the pending   *)
(* setTimeout callback with the frame it closes over.  Every frame read    *)
(* carries the offset it was read at, for the properties only.  The delay  *)
(* of the one pending timer decides when it fires, not what it does, so    *)
(* playbackStartTime and speed are left out.  scheduleNextFrame assigns    *)
(* the handle of its setTimeout to playbackTimer without a clearTimeout:   *)
(* player.orphanTimers counts the timers still pending whose handle it has *)
(* overwritten in that way.                                                *)
(***************************************************************************)
NoHeader == [magic |-> <<>>]

NoTimer == [pending |-> FALSE]

NoFrame == [isNull |-> TRUE]

IsLoaded(p) == p.header # NoHeader

\* buffer.toString("ascii", start, end): decoding as ASCII unsets the
\* highest bit of every byte
AsciiSlice(buffer, start, end) ==
    [i \in 1..(end - start) |-> buffer[start + i] % 128]

\* parseHeader succeeds on this file
ValidHeader(buffer) ==
    /\ Len(buffer) >= HEADER_SIZE
    /\ AsciiSlice(buffer, 0, 4) = DMXREC_MAGIC
    /\ ByteAt(buffer, 4) <= DMXREC_VERSION

\* readBigInt64LE of a value below 2^31 (its upper bytes are zero)
ReadBigInt64LE(buffer, offset) == ReadUInt32LE(buffer, offset)

parseHeader(buffer) ==
    [magic |-> AsciiSlice(buffer, 0, 4),
     version |-> ByteAt(buffer, 4),
     flags |-> ByteAt(buffer, 5),
     protocol |-> ByteAt(buffer, 6),
     universe |-> ReadUInt16LE(buffer, 7),
     startTime |-> ReadBigInt64LE(buffer, 9),
     duration |-> ReadUInt32LE(buffer, 17),
     frameCount |-> ReadUInt32LE(buffer, 21)]

\* the loop "for (let i = 0; i < actualChangeCount; i++)" of readNextFrame:
\* the changes read from offset on and the offset after them.  Change i is
\* read at offset + 3 * i, and a change whose value lies past the end of the
\* buffer is not pushed: those are the last ones.
ReadChanges(buffer, offset, count) ==
    LET pushed == Cardinality({i \in 0..(count - 1) :
                                ByteAt(buffer, offset + 3 * i + 2) # Undefined})
    IN [changes |-> [i \in 1..pushed |->
                        [channel |-> ReadUInt16LE(buffer, offset + 3 * (i - 1)),
                         value |-> ByteAt(buffer, offset + 3 * (i - 1) + 2)]],
        offset |-> offset + 3 * count]

\* readNextFrame after "Read delta time (varint)": delta is the decoded varint
ReadFrameAfterDelta(p, delta) ==
         LET start == p.frameOffset
             countAt == start + delta.bytesRead
             changeCount == ByteAt(p.frameData, countAt)
             dataAt == countAt + 1
         IN IF changeCount = Undefined
            THEN [frame |-> NoFrame, p |-> [p EXCEPT !.frameOffset = dataAt]]
            ELSE IF changeCount = FrameType_SNAPSHOT
            THEN [frame |-> [isNull |-> FALSE, deltaTime |-> delta.value,
                             changes |-> <<>>, isSnapshot |-> TRUE,
                             snapshotData |->
                                 SubSeq(p.frameData, dataAt + 1,
                                        IF dataAt + TOTAL_CHANNELS <= Len(p.frameData)
                                        THEN dataAt + TOTAL_CHANNELS
                                        ELSE Len(p.frameData)),
                             offset |-> start],
                  p |-> [p EXCEPT !.frameOffset = dataAt + TOTAL_CHANNELS]]
            ELSE LET extended == changeCount = FrameType_EXTENDED
                     actualChangeCount == IF extended
                                          THEN ReadUInt16LE(p.frameData, dataAt)
                                          ELSE changeCount
                     read == ReadChanges(p.frameData,
                                         IF extended THEN dataAt + 2 ELSE dataAt,
                                         actualChangeCount)
                 IN [frame |-> [isNull |-> FALSE, deltaTime |-> delta.value,
                                changes |-> read.changes, isSnapshot |-> FALSE,
                                snapshotData |-> <<>>, offset |-> start],
                     p |-> [p EXCEPT !.frameOffset = read.offset]]

\* readNextFrame: the frame (or NoFrame) and the player with frameOffset moved
readNextFrame(p) ==
    IF ~IsLoaded(p) \/ p.frameOffset >= Len(p.frameData)
    THEN [frame |-> NoFrame, p |-> p]
    ELSE ReadFrameAfterDelta(p, decodeVarint(p.frameData, p.frameOffset))

\* the loop "for (const change of frame.changes)" from change i on
RECURSIVE ApplyChanges(_, _, _)
ApplyChanges(channels, changes, i) ==
    IF i > Len(changes) THEN channels
    ELSE ApplyChanges(
            IF changes[i].channel < Len(channels)
            THEN [channels EXCEPT ![changes[i].channel + 1] = changes[i].value]
            ELSE channels,
            changes, i + 1)

\* "Apply frame": channels.set(snapshotData) or the changes one by one
ApplyFrame(channels, frame) ==
    IF frame.isSnapshot
    THEN [i \in 1..Len(channels) |->
            IF i <= Len(frame.snapshotData) THEN frame.snapshotData[i] ELSE channels[i]]
    ELSE ApplyChanges(channels, frame.changes, 1)

\* the loop of buildFrameIndex from offset on, at cumulative position
RECURSIVE BuildIndexFrom(_, _, _)
BuildIndexFrom(frameData, offset, position) ==
    IF offset >= Len(frameData) THEN <<>>
    ELSE LET delta == decodeVarint(frameData, offset)
             countAt == offset + delta.bytesRead
             changeCount == ByteAt(frameData, countAt)
             isSnapshot == changeCount = FrameType_SNAPSHOT
             actualChangeCount == IF changeCount = FrameType_EXTENDED
                                  THEN ReadUInt16LE(frameData, countAt + 1)
                                  ELSE changeCount
             next == IF isSnapshot THEN countAt + 1 + TOTAL_CHANNELS
                     ELSE IF changeCount = FrameType_EXTENDED
                          THEN countAt + 3 + actualChangeCount * 3
                          ELSE countAt + 1 + actualChangeCount * 3
         IN IF changeCount = Undefined THEN <<>>
            ELSE (IF isSnapshot
                  THEN <<[offset |-> offset,
                          position |-> position,
                          isSnapshot |-> TRUE]>>
                  ELSE <<>>)
                 \o BuildIndexFrom(frameData, next, position + delta.value)

buildFrameIndex(p) ==
    IF ~IsLoaded(p) \/ p.frameIndexBuilt THEN p
    ELSE [p EXCEPT !.frameIndex = BuildIndexFrom(p.frameData, 0, 0),
                   !.frameIndexBuilt = TRUE]

\* setState: the events of the state-change callback
StateChangeEvents(p, newState) ==
    IF p.state # newState THEN <<[event |-> "stateChange", state |-> newState]>> ELSE <<>>

\* the end of the stream in scheduleNextFrame, loop disabled
Finish(p, looped) ==
    [p |-> [p EXCEPT !.state = "finished"],
     events |-> StateChangeEvents(p, "finished") \o <<[event |-> "finished"]>>,
     threw |-> FALSE, looped |-> looped]

\* "Loop back to beginning"
Rewind(p) ==
    [p EXCEPT !.frameOffset = 0, !.currentFrame = 0, !.currentPosition = 0,
              !.channels = ZeroChannels]

\* scheduleNextFrame calls itself after "Loop back to beginning" and comes
\* back to the same test with the same values when the rewound player is at
\* the end of the stream again: the recursion ends in a RangeError (call
\* stack exhausted), with the player rewound and still "playing"
Overflow(p) ==
    [p |-> Rewind(p), events |-> <<>>, threw |-> TRUE, looped |-> TRUE]

\* scheduleNextFrame: the player with the next frame's timer pending, or
\* finished, the events emitted, whether the call threw and whether it looped
\* back to the beginning
RECURSIVE scheduleNextFrame(_, _)

\* scheduleNextFrame after "Read the next frame": read is what readNextFrame
\* gave for the frame at offset start
ScheduleRead(read, start, looped) ==
    IF read.frame = NoFrame
    THEN IF read.p.loopEnabled
         THEN IF start = 0 THEN Overflow(read.p)
              ELSE scheduleNextFrame(Rewind(read.p), TRUE)
         ELSE Finish(read.p, looped)
    ELSE [p |-> [read.p EXCEPT
                    !.currentPosition = @ + read.frame.deltaTime,
                    !.orphanTimers = IF read.p.playbackTimer.pending THEN @ + 1 ELSE @,
                    !.playbackTimer = [pending |-> TRUE, frame |-> read.frame]],
          events |-> <<>>, threw |-> FALSE, looped |-> looped]

scheduleNextFrame(p, looped) ==
    IF p.state # "playing" \/ ~IsLoaded(p)
    THEN [p |-> p, events |-> <<>>, threw |-> FALSE, looped |-> looped]
    ELSE IF p.frameOffset >= Len(p.frameData) \/ p.currentFrame >= p.header.frameCount
    THEN IF p.loopEnabled
         THEN IF Len(p.frameData) = 0 \/ p.header.frameCount = 0
              THEN Overflow(p)
              ELSE scheduleNextFrame(Rewind(p), TRUE)
         ELSE Finish(p, looped)
    ELSE ScheduleRead(readNextFrame(p), p.frameOffset, looped)

\* the index of the last frameIndex entry at or before the target, 0 if none
\* (the loop "for (let i = this.frameIndex.length - 1; i >= 0; i--)")
FindSnapshotIndex(frameIndex, targetPosition) ==
    LET found == {i \in 1..Len(frameIndex) : frameIndex[i].position <= targetPosition}
    IN IF found = {} THEN 0 ELSE CHOOSE i \in found : \A j \in found : j <= i

NoOffset == -1

\* the loop "Replay frames until we reach target position" of seek: the player
\* after it and the offset of the frame that lay past the target, if any
RECURSIVE SeekReplay(_, _)

\* one turn of the loop, after its readNextFrame gave frame and the player p
SeekReplayFrame(p, frame, targetPosition) ==
    IF frame = NoFrame THEN [p |-> p, stoppedAt |-> NoOffset]
    ELSE IF p.currentPosition + frame.deltaTime > targetPosition
    THEN [p |-> [p EXCEPT !.currentFrame = @ + 1],
          stoppedAt |-> frame.offset]
    ELSE SeekReplay([p EXCEPT !.currentPosition = @ + frame.deltaTime,
                              !.currentFrame = @ + 1,
                              !.channels = ApplyFrame(@, frame)],
                    targetPosition)

SeekReplayRead(read, targetPosition) ==
    SeekReplayFrame(read.p, read.frame, targetPosition)

SeekReplay(p, targetPosition) ==
    IF p.currentPosition < targetPosition /\ p.frameOffset < Len(p.frameData)
    THEN SeekReplayRead(readNextFrame(p), targetPosition)
    ELSE [p |-> p, stoppedAt |-> NoOffset]

Min(a, b) == IF a < b THEN a ELSE b

Max(a, b) == IF a > b THEN a ELSE b

\* the playback speed in hundredths: 1.0
DEFAULT_SPEED == 100
MIN_SPEED == 10
MAX_SPEED == 1000
\* a JavaScript number that is not NaN, held in hundredths
Num(hundredths) == [nan |-> FALSE, hundredths |-> hundredths]

NaN == [nan |-> TRUE]

\* Math.min and Math.max: NaN where an argument is NaN
MathMin(a, b) ==
    IF a.nan \/ b.nan THEN NaN
    ELSE IF a.hundredths <= b.hundredths THEN a ELSE b

MathMax(a, b) ==
    IF a.nan \/ b.nan THEN NaN
    ELSE IF a.hundredths >= b.hundredths THEN a ELSE b

\* the speeds given to setSpeed
SpeedInputs == {Num(5), Num(100)}

\* setSpeed: Math.max(0.1, Math.min(10.0, speed))
setSpeed(speed) == MathMax(Num(MIN_SPEED), MathMin(Num(MAX_SPEED), speed))

\* seek, "Read and apply the snapshot": read is what readNextFrame gave
SeekApplySnapshot(read) ==
    IF read.frame # NoFrame /\ read.frame.isSnapshot
    THEN [read.p EXCEPT !.channels = ApplyFrame(@, read.frame)]
    ELSE read.p

\* the position of the snapshot's index entry not taken over
SeekBase_KeepPosition(p1, snapshotIndex) ==
    IF snapshotIndex >= 1
    THEN SeekApplySnapshot(readNextFrame(
            [p1 EXCEPT !.channels = ZeroChannels,
                       !.frameOffset = p1.frameIndex[snapshotIndex].offset,
                       !.currentFrame = snapshotIndex - 1]))
    ELSE [p1 EXCEPT !.channels = ZeroChannels, !.frameOffset = 0,
                    !.currentPosition = 0, !.currentFrame = 0]

\* seek from "Reset channels" to the replay loop: the player placed at the
\* snapshot found, or at the beginning
SeekBase(p1, snapshotIndex) ==
    IF snapshotIndex >= 1
    THEN SeekApplySnapshot(readNextFrame(
            [p1 EXCEPT !.channels = ZeroChannels,
                       !.frameOffset = p1.frameIndex[snapshotIndex].offset,
                       !.currentPosition = p1.frameIndex[snapshotIndex].position,
                       !.currentFrame = snapshotIndex - 1]))
    ELSE [p1 EXCEPT !.channels = ZeroChannels, !.frameOffset = 0,
                    !.currentPosition = 0, !.currentFrame = 0]

\* seek after the replay loop: the callbacks and "Resume if was playing"
SeekResume(p2, wasPlaying) ==
    IF wasPlaying THEN scheduleNextFrame(p2, FALSE)
    ELSE [p |-> p2, events |-> <<>>, threw |-> FALSE, looped |-> FALSE]

SeekFinish(p2, resumed, wasPlaying, targetPosition, stoppedAt) ==
    [p |-> resumed.p,
     events |-> <<[event |-> "position", position |-> p2.currentPosition],
                  [event |-> "frame", channels |-> p2.channels]>> \o resumed.events,
     wasPlaying |-> wasPlaying,
     targetPosition |-> targetPosition,
     stoppedAt |-> stoppedAt,
     threw |-> resumed.threw,
     looped |-> resumed.looped]

SeekReplayed(p2, wasPlaying, targetPosition, stoppedAt) ==
    SeekFinish(p2, SeekResume(p2, wasPlaying), wasPlaying, targetPosition, stoppedAt)

SeekTo(p1, wasPlaying, targetPosition, replayed) ==
    SeekReplayed([replayed.p EXCEPT !.pausedPosition = replayed.p.currentPosition],
                 wasPlaying, targetPosition, replayed.stoppedAt)

SeekClamped(p1, wasPlaying, targetPosition) ==
    SeekTo(p1, wasPlaying, targetPosition,
           SeekReplay(SeekBase(p1, FindSnapshotIndex(p1.frameIndex, targetPosition)),
                      targetPosition))

SeekIndexed(indexed, positionMs) ==
    SeekClamped(IF indexed.state = "playing"
                THEN [indexed EXCEPT !.playbackTimer = NoTimer] ELSE indexed,
                indexed.state = "playing",
                Max(0, Min(positionMs, indexed.header.duration)))

\* seek(positionMs) on a loaded player: the player after it, the events
\* emitted and the offset of the frame the replay stopped at
seek(p0, positionMs) == SeekIndexed(buildFrameIndex(p0), positionMs)

PlayerInit ==
    [state |-> "idle",
     header |-> NoHeader,
     frameData |-> <<>>,
     frameOffset |-> 0,
     channels |-> ZeroChannels,
     currentFrame |-> 0,
     currentPosition |-> 0,
     pausedPosition |-> 0,
     speed |-> Num(DEFAULT_SPEED),
     loopEnabled |-> FALSE,
     frameIndex |-> <<>>,
     frameIndexBuilt |-> FALSE,
     playbackTimer |-> NoTimer,
     orphanTimers |-> 0,
     filePath |-> NULL]

(***************************************************************************)
(* Actions of SACNHandler                                                  *)
(***************************************************************************)
\* start(): a second start returns at once
Start ==
    /\ ~handler.isRunning
    /\ handler' = [handler EXCEPT !.isRunning = TRUE, !.sourceCleanupTimer = TRUE]
    /\ emitted' = <<>>
    /\ lastOp' = [op |-> "start"]
    /\ UNCHANGED <<now, sentTo, recVars, artnetVars>>

\* stop(): a stop of a stopped handler returns at once
Stop ==
    /\ handler.isRunning
    /\ handler' = [handler EXCEPT !.isRunning = FALSE, !.sourceCleanupTimer = FALSE,
                                  !.sources = <<>>, !.activeSource = NULL]
    /\ emitted' = <<[event |-> "close"]>>
    /\ lastOp' = [op |-> "stop"]
    /\ sentTo' = NoneSentTo
    /\ UNCHANGED <<now, recVars, artnetVars>>

\* stop() of a handler that is not running: it returns at once
StopStopped ==
    /\ ~handler.isRunning
    /\ emitted' = <<>>
    /\ lastOp' = [op |-> "sacnStop", wasRunning |-> FALSE, threw |-> FALSE]
    /\ UNCHANGED <<now, sacnVars, recVars, artnetVars>>

\* the receiver's "packet" listener: handlePacket(packet), for a packet of
\* the traffic `packets`
HandlePacket(packets, maxPackets) ==
    /\ handler.isRunning
    /\ \E packet \in packets :
        LET universe == packet.universe
            sourceKey == getSourceKey(packet)
            op == [op |-> "packet", universe |-> universe, key |-> sourceKey,
                   priority |-> IF packet.priority = NoPriority
                                THEN DEFAULT_PRIORITY ELSE packet.priority]
        IN IF ~isValidUniverse(universe)
           THEN /\ handler' = handler
                /\ emitted' = <<>>
                /\ lastOp' = [op EXCEPT !.op = "invalid"]
                /\ sentTo' = sentTo
           ELSE LET existingInfo == handler.discoveredUniverses[universe]
                    counted == [handler EXCEPT !.discoveredUniverses[universe] =
                                    UpdateUniverseInfo(existingInfo, packet)]
                    discovered == IF existingInfo.packetCount = 0
                                  THEN <<[event |-> "universeDiscovered",
                                          universe |-> universe]>>
                                  ELSE <<>>
                    sourceName == Coalesce(packet.sourceName, "Unknown")
                    tracked == updateSourceTracking(counted, sourceKey, sourceName,
                                    packet.sourceAddress, op.priority, now)
                    dmxPacket == [event |-> "packet", universe |-> universe,
                                  source |-> packet.sourceName,
                                  priority |-> packet.priority, key |-> sourceKey]
                IN /\ TotalPacketCount(handler) < maxPackets
                   /\ handler' = tracked.h
                   /\ emitted' = discovered \o tracked.events \o
                                 (IF tracked.shouldEmit THEN <<dmxPacket>> ELSE <<>>)
                   /\ lastOp' = op
                   /\ sentTo' = [sentTo EXCEPT ![sourceKey] = @ \cup {universe}]
    /\ UNCHANGED <<now, recVars, artnetVars>>

\* the setInterval callback: cleanupStaleSources()
CleanupStaleSources ==
    /\ handler.sourceCleanupTimer
    /\ LET kept == RemoveStale(handler.sources, now)
           removed == Len(kept) < Len(handler.sources)
           highestPrioritySource == FindHighestPrioritySource(kept)
           marked == MarkActive(kept, highestPrioritySource)
       IN /\ handler' = IF removed
                        THEN [handler EXCEPT !.sources = marked,
                                             !.activeSource = highestPrioritySource]
                        ELSE handler
          /\ emitted' = IF removed THEN <<SourcesChangedEvent(marked)>> ELSE <<>>
          /\ lastOp' = [op |-> "cleanup",
                        removed |-> SelectSeq(handler.sources,
                                              LAMBDA info : IsStale(info, now))]
          /\ sentTo' = [k \in SourceKeys |->
                            IF HasKey(kept, k) THEN sentTo[k] ELSE {}]
    /\ UNCHANGED <<now, recVars, artnetVars>>

\* time passes between two callbacks
Tick ==
    /\ \E step \in TickSteps :
        /\ now + step <= MaxTime
        /\ now' = now + step
    /\ emitted' = <<>>
    /\ lastOp' = [op |-> "tick"]
    /\ UNCHANGED <<sacnVars, recVars, artnetVars>>

(***************************************************************************)
(* protocols/artnet.ts: the Art-Net receiver                               *)
(***************************************************************************)
ARTNET_OPCODE_DMX == 20480
ARTNET_OPCODE_POLL == 8192
ARTNET_OPCODE_POLL_REPLY == 8448
\* Buffer.from("Art-Net\0")
ARTNET_HEADER == <<65, 114, 116, 45, 78, 101, 116, 0>>
ARTNET_HEADER_LENGTH == 8
ARTNET_MIN_PACKET_LENGTH == 18
ARTNET_POLL_REPLY_MIN_LENGTH == 207
DEFAULT_DISCOVERY_TIMEOUT == 3000
\* TOTAL_CHANNELS at its full width: the Art-Net decoder is not scaled
ARTNET_TOTAL_CHANNELS == 512

\* rinfo.address of the senders
ArtNetAddresses == {"10.0.0.1", "10.0.0.2"}

\* the universes valid datagrams of the traffic are addressed to
ArtNetUniverses == {0, 1}

\* config.universe of the Art-Net transmitters constructed
TransmitterUniverses == {0, 63999}

\* the universes the tables of the receiver have room for
TableUniverses == ArtNetUniverses \cup TransmitterUniverses

\* n bytes of the value v
Fill(n, v) == [i \in 1..n |-> v]

UInt16BE(value) == <<(value \div 256) % 256, value % 256>>

\* an ArtDmx datagram as a sender lays it out: header, OpCode, ProtVer,
\* Sequence, Physical, Universe, Length, data
ArtDmx(version, sequence, universe, length, data) ==
    ARTNET_HEADER \o UInt16LE(ARTNET_OPCODE_DMX) \o UInt16BE(version)
      \o <<sequence, 0>> \o UInt16LE(universe) \o UInt16BE(length) \o data

\* an ArtPollReply datagram of 207 bytes with the firmware version at
\* offsets 16..17 and SwOut at offsets 190..193
ArtPollReply(versInfoH, versInfoL, swOut) ==
    ARTNET_HEADER \o UInt16LE(ARTNET_OPCODE_POLL_REPLY) \o Fill(6, 0)
      \o <<versInfoH, versInfoL>> \o Fill(172, 0) \o swOut \o Fill(13, 0)

\* the same datagram with its first byte replaced
WithFirstByte(msg, byte) == <<byte>> \o SubSeq(msg, 2, Len(msg))

\* the payloads senders transmit
ArtNetPayloads == {<<30, 40, 50, 60>>, Fill(512, 255)}

\* well-formed ArtDmx datagrams; the last one carries bytes past the length
ValidDmxDatagrams ==
    {ArtDmx(14, 7, u, Len(data), data) : u \in ArtNetUniverses, data \in ArtNetPayloads}
      \cup {ArtDmx(14, 8, 0, 2, <<70, 80, 90, 99>>)}

\* datagrams the receiver has to drop
MalformedDatagrams ==
    { <<>>,
      SubSeq(ARTNET_HEADER, 1, 8) \o <<0>>,
      SubSeq(ArtDmx(14, 7, 0, 2, <<10, 20>>), 1, 17),
      WithFirstByte(ArtDmx(14, 7, 0, 2, <<10, 20>>), 66),
      WithFirstByte(ArtPollReply(1, 2, <<0, 1, 255, 255>>), 66),
      ArtDmx(13, 7, 0, 2, <<10, 20>>),
      ArtDmx(14, 7, 64000, 2, <<10, 20>>),
      ArtDmx(14, 7, 1, 0, <<>>),
      ArtDmx(14, 7, 1, 1, <<10>>),
      ArtDmx(14, 7, 1, 513, Fill(513, 9)),
      ArtDmx(14, 7, 1, 4, <<30, 40>>) }

\* an ArtPollReply datagram, one too short, and an ArtPoll
OtherDatagrams ==
    { ArtPollReply(1, 2, <<1, 1, 0, 255>>),
      SubSeq(ArtPollReply(1, 2, <<0, 1, 255, 255>>), 1, 100),
      ARTNET_HEADER \o UInt16LE(ARTNET_OPCODE_POLL) \o UInt16BE(14) \o Fill(6, 0) }

\* the traffic: every sender transmits ArtDmx, one of them also the rest
ArtNetTraffic ==
    {[msg |-> m, address |-> a] : m \in ValidDmxDatagrams, a \in ArtNetAddresses}
      \cup {[msg |-> m, address |-> "10.0.0.2"] :
                m \in MalformedDatagrams \cup OtherDatagrams}

\* an entry of discoveredUniverses; packetCount 0 stands for "no entry"
NoArtNetUniverse == [packetCount |-> 0, lastSeen |-> 0, source |-> NULL]

\* an entry of discoveredNodes (the names, the manufacturer and the MAC
\* address, which are decoded text, are left out); known = FALSE stands
\* for "no entry"
NoArtNetNode == [known |-> FALSE, universes |-> <<>>, firmwareVersion |-> <<>>,
                 lastSeen |-> 0]

\* no setTimeout of startDiscovery is pending
NoDiscoveryTimer == -1

ArtNetInit ==
    [isRunning |-> FALSE,
     isDiscovering |-> FALSE,
     discoveryTimer |-> NoDiscoveryTimer,
     discoveredUniverses |-> [u \in TableUniverses |-> NoArtNetUniverse],
     discoveredNodes |-> [a \in ArtNetAddresses |-> NoArtNetNode],
     socket |-> "none",
     closeCallback |-> FALSE,
     orphansBinding |-> 0,
     orphansBound |-> 0]

\* nothing decoded yet for any universe
NothingDecoded == [u \in TableUniverses |-> <<>>]

\* what a handler of the receiver returns: the handler after it, the events
\* it emitted and whether it raised
ArtNetResult(h, events, threw) == [h |-> h, events |-> events, threw |-> threw]

\* msg.readUInt16LE(offset) / msg.readUInt16BE(offset) raise a RangeError
\* unless both bytes are inside the buffer
CanReadUInt16(msg, offset) == offset >= 0 /\ offset + 2 <= Len(msg)

ReadUInt16BE(buffer, offset) ==
    256 * ByteAt(buffer, offset) + ByteAt(buffer, offset + 1)

\* validateHeader with the loop started at i = 1
validateHeader_FromOne(msg) ==
    \A i \in 1..(ARTNET_HEADER_LENGTH - 1) : ByteAt(msg, i) = ARTNET_HEADER[i + 1]

\* validateHeader(msg): msg[i] === ARTNET_HEADER[i] for i < 8
validateHeader(msg) ==
    \A i \in 0..(ARTNET_HEADER_LENGTH - 1) : ByteAt(msg, i) = ARTNET_HEADER[i + 1]

\* "Extract channel data": a new Uint8Array(TOTAL_CHANNELS), which is all
\* zero, filled from msg[18 + i] for i < min(dataLength, TOTAL_CHANNELS)
\* where that byte is defined
ExtractChannels(msg, dataLength) ==
    [c \in 1..ARTNET_TOTAL_CHANNELS |->
        IF c - 1 < dataLength /\ ByteAt(msg, 18 + c - 1) # Undefined
        THEN ByteAt(msg, 18 + c - 1)
        ELSE 0]

\* "Update discovered universes" of parseDMXPacket
ArtNetUniverseSeen(existingInfo, address, time) ==
    IF existingInfo.packetCount = 0
    THEN [packetCount |-> 1, lastSeen |-> time, source |-> address]
    ELSE [packetCount |-> existingInfo.packetCount + 1, lastSeen |-> time,
          source |-> address]

\* parseDMXPacket past its validations
AcceptDmx(h, msg, address, time, universe, dataLength) ==
    ArtNetResult(
        [h EXCEPT !.discoveredUniverses[universe] =
            ArtNetUniverseSeen(@, address, time)],
        (IF h.discoveredUniverses[universe].packetCount = 0
         THEN <<[event |-> "universeDiscovered", universe |-> universe]>>
         ELSE <<>>)
          \o <<[event |-> "packet", universe |-> universe,
                channels |-> ExtractChannels(msg, dataLength),
                source |-> address, sequence |-> ByteAt(msg, 12),
                timestamp |-> time]>>,
        FALSE)

\* parseDMXPacket from the read of the data length on
ParseDmxLength(h, msg, address, time, universe) ==
    IF ~CanReadUInt16(msg, 16) THEN ArtNetResult(h, <<>>, TRUE)
    ELSE IF ReadUInt16BE(msg, 16) < 2 \/ ReadUInt16BE(msg, 16) > 512
    THEN ArtNetResult(h, <<>>, FALSE)
    ELSE IF Len(msg) < 18 + ReadUInt16BE(msg, 16)
    THEN ArtNetResult(h, <<>>, FALSE)
    ELSE AcceptDmx(h, msg, address, time, universe, ReadUInt16BE(msg, 16))

\* parseDMXPacket(msg, rinfo)
parseDMXPacket(h, msg, address, time) ==
    IF ~CanReadUInt16(msg, 10) THEN ArtNetResult(h, <<>>, TRUE)
    ELSE IF ReadUInt16BE(msg, 10) < 14 THEN ArtNetResult(h, <<>>, FALSE)
    ELSE IF ~CanReadUInt16(msg, 14) THEN ArtNetResult(h, <<>>, TRUE)
    ELSE IF ~isValidUniverse(ReadUInt16LE(msg, 14)) THEN ArtNetResult(h, <<>>, FALSE)
    ELSE ParseDmxLength(h, msg, address, time, ReadUInt16LE(msg, 14))

\* Array.prototype.sort((a, b) => a - b) of numbers
RECURSIVE SortAscending(_)
SortAscending(list) ==
    IF list = <<>> THEN <<>>
    ELSE LET rest == SortAscending(SubSeq(list, 1, Len(list) - 1))
             x    == list[Len(list)]
             k    == Cardinality({i \in 1..Len(rest) : rest[i] <= x})
         IN SubSeq(rest, 1, k) \o <<x>> \o SubSeq(rest, k + 1, Len(rest))

\* the loop over the four SwOut bytes from port i on: a value is pushed
\* unless it is undefined, 0xff or already in the list
RECURSIVE AddSwOut(_, _, _)
AddSwOut(universes, msg, i) ==
    IF i >= 4 THEN universes
    ELSE AddSwOut(
            IF ByteAt(msg, 190 + i) # Undefined /\ ByteAt(msg, 190 + i) # 255
               /\ \A j \in 1..Len(universes) : universes[j] # ByteAt(msg, 190 + i)
            THEN Append(universes, ByteAt(msg, 190 + i))
            ELSE universes,
            msg, i + 1)

\* parseArtPollReply taking replies only while a discovery is in progress
parseArtPollReply_WhileDiscovering(h, msg, address, time) ==
    IF Len(msg) < ARTNET_POLL_REPLY_MIN_LENGTH \/ ~h.isDiscovering
    THEN ArtNetResult(h, <<>>, FALSE)
    ELSE ArtNetResult(
            [h EXCEPT !.discoveredNodes[address] =
                [known |-> TRUE,
                 universes |-> SortAscending(AddSwOut(@.universes, msg, 0)),
                 firmwareVersion |-> <<ByteAt(msg, 16), ByteAt(msg, 17)>>,
                 lastSeen |-> time]],
            IF h.discoveredNodes[address].known THEN <<>>
            ELSE <<[event |-> "nodeDiscovered", ip |-> address]>>,
            FALSE)

\* parseArtPollReply(msg, rinfo)
parseArtPollReply(h, msg, address, time) ==
    IF Len(msg) < ARTNET_POLL_REPLY_MIN_LENGTH THEN ArtNetResult(h, <<>>, FALSE)
    ELSE ArtNetResult(
            [h EXCEPT !.discoveredNodes[address] =
                [known |-> TRUE,
                 universes |-> SortAscending(AddSwOut(@.universes, msg, 0)),
                 firmwareVersion |-> <<ByteAt(msg, 16), ByteAt(msg, 17)>>,
                 lastSeen |-> time]],
            IF h.discoveredNodes[address].known THEN <<>>
            ELSE <<[event |-> "nodeDiscovered", ip |-> address]>>,
            FALSE)

\* handleMessage past the header: the switch on the OpCode
DispatchOpCode(h, msg, address, time) ==
    IF ~CanReadUInt16(msg, 8) THEN ArtNetResult(h, <<>>, TRUE)
    ELSE IF ReadUInt16LE(msg, 8) = ARTNET_OPCODE_DMX
    THEN parseDMXPacket(h, msg, address, time)
    ELSE IF ReadUInt16LE(msg, 8) = ARTNET_OPCODE_POLL_REPLY
    THEN parseArtPollReply(h, msg, address, time)
    ELSE ArtNetResult(h, <<>>, FALSE)

\* handleMessage(msg, rinfo)
handleMessage(h, msg, address, time) ==
    IF Len(msg) < ARTNET_MIN_PACKET_LENGTH THEN ArtNetResult(h, <<>>, FALSE)
    ELSE IF ~validateHeader(msg) THEN ArtNetResult(h, <<>>, FALSE)
    ELSE DispatchOpCode(h, msg, address, time)

\* the sum of packetCount over discoveredUniverses
ArtNetPacketCount(h) == SumCounts(h.discoveredUniverses, DOMAIN h.discoveredUniverses)

\* the channel array of the "packet" event among `events` for `universe`,
\* or `previous` where there is none
LastDecoded(events, universe, previous) ==
    IF \E i \in 1..Len(events) :
            events[i].event = "packet" /\ events[i].universe = universe
    THEN events[CHOOSE i \in 1..Len(events) :
            events[i].event = "packet" /\ events[i].universe = universe].channels
    ELSE previous

\* getDiscoveredNodes(): the nodes of the table, by their ip
getDiscoveredNodes(h) == {a \in ArtNetAddresses : h.discoveredNodes[a].known}

\* a datagram parseArtPollReply takes as a reply
IsArtPollReply(msg) ==
    /\ Len(msg) >= ARTNET_POLL_REPLY_MIN_LENGTH
    /\ validateHeader(msg)
    /\ ReadUInt16LE(msg, 8) = ARTNET_OPCODE_POLL_REPLY

\* startDiscovery(timeout) with the table kept
BeginDiscovery_KeepNodes(h, timeout, time) ==
    [h EXCEPT !.isDiscovering = TRUE, !.discoveryTimer = time + timeout]

\* startDiscovery(timeout) where the handler runs and no discovery is in
\* progress: the table is cleared and the timeout set
BeginDiscovery(h, timeout, time) ==
    [h EXCEPT !.isDiscovering = TRUE,
              !.discoveredNodes = [a \in ArtNetAddresses |-> NoArtNetNode],
              !.discoveryTimer = time + timeout]

\* startDiscovery(timeout): it throws where the handler is not running,
\* returns the nodes at once where a discovery is in progress, and otherwise
\* sends an ArtPoll and returns when the timeout fires
StartDiscovery(timeouts, maxCalls) ==
    /\ discovery.calls < maxCalls
    /\ \E timeout \in timeouts :
        IF ~artnet.isRunning
        THEN /\ artnet' = artnet
             /\ discovery' = [discovery EXCEPT !.calls = @ + 1]
             /\ lastOp' = [op |-> "startDiscovery", threw |-> TRUE,
                           immediate |-> FALSE]
        ELSE IF artnet.isDiscovering
        THEN /\ artnet' = artnet
             /\ discovery' = [discovery EXCEPT
                    !.calls = @ + 1,
                    !.returned = Append(@, [nodes |-> getDiscoveredNodes(artnet),
                                            immediate |-> TRUE])]
             /\ lastOp' = [op |-> "startDiscovery", threw |-> FALSE,
                           immediate |-> TRUE]
        ELSE /\ artnet' = BeginDiscovery(artnet, timeout, now)
             /\ discovery' = [discovery EXCEPT !.calls = @ + 1, !.polls = @ + 1,
                                               !.replied = {}]
             /\ lastOp' = [op |-> "startDiscovery", threw |-> FALSE,
                           immediate |-> FALSE]
    /\ emitted' = <<>>
    /\ UNCHANGED <<now, sacnVars, recVars, decoded, txVars>>

\* the setTimeout callback of startDiscovery: the promise resolves with the
\* nodes of the table
DiscoveryTimeout ==
    /\ artnet.discoveryTimer # NoDiscoveryTimer
    /\ now >= artnet.discoveryTimer
    /\ artnet' = [artnet EXCEPT !.isDiscovering = FALSE, !.discoveryTimer = NoDiscoveryTimer]
    /\ discovery' = [discovery EXCEPT
            !.returned = Append(@, [nodes |-> getDiscoveredNodes(artnet),
                                    immediate |-> FALSE])]
    /\ emitted' = <<>>
    /\ lastOp' = [op |-> "discoveryTimeout", wasRunning |-> artnet.isRunning]
    /\ UNCHANGED <<now, sacnVars, recVars, decoded, txVars>>

\* time passes while the timeout of a discovery is pending
DiscoveryTick ==
    /\ artnet.discoveryTimer # NoDiscoveryTimer
    /\ now < artnet.discoveryTimer
    /\ \E step \in TickSteps : now' = now + step
    /\ emitted' = <<>>
    /\ lastOp' = [op |-> "tick"]
    /\ UNCHANGED <<sacnVars, recVars, artnetVars>>

\* start() with the bind completed before any other call is made; a start
\* of a running handler returns at once
ArtNetStart ==
    /\ ~artnet.isRunning
    /\ artnet' = [artnet EXCEPT !.isRunning = TRUE, !.socket = "bound"]
    /\ emitted' = <<>>
    /\ lastOp' = [op |-> "artnetStart"]
    /\ UNCHANGED <<now, sacnVars, recVars, decoded, discovery, txVars>>

\* stop() with the close completed before any other call is made: a stop
\* of a handler that is not running returns at once; otherwise the
\* listeners are removed and the socket is closed
ArtNetStop ==
    /\ artnet' = IF ~artnet.isRunning THEN artnet
                 ELSE [artnet EXCEPT !.isRunning = FALSE, !.socket = "none"]
    /\ emitted' = <<>>
    /\ lastOp' = [op |-> "artnetStop", wasRunning |-> artnet.isRunning,
                  threw |-> FALSE]
    /\ UNCHANGED <<now, sacnVars, recVars, decoded, discovery, txVars>>

\* the socket's "message" listener for a datagram of `traffic`: it calls
\* handleMessage and emits "error" where that raises
ArtNetMessage(traffic, maxPackets) ==
    /\ artnet.isRunning
    /\ \E datagram \in traffic :
        \E result \in {handleMessage(artnet, datagram.msg, datagram.address, now)} :
            /\ ArtNetPacketCount(result.h) <= maxPackets
            /\ artnet' = result.h
            /\ emitted' = IF result.threw
                          THEN <<[event |-> "error"]>> ELSE result.events
            /\ lastOp' = [op |-> "message", msg |-> datagram.msg,
                          address |-> datagram.address, threw |-> result.threw]
            /\ decoded' = [u \in TableUniverses |->
                              LastDecoded(result.events, u, decoded[u])]
            /\ discovery' = IF IsArtPollReply(datagram.msg)
                            THEN [discovery EXCEPT !.replied = @ \cup {datagram.address}]
                            ELSE discovery
    /\ UNCHANGED <<now, sacnVars, recVars, tx>>

(***************************************************************************)
(* transmitter.ts: the Art-Net and the sACN transmitter                    *)
(***************************************************************************)
\* config.universe of a transmitter that is not constructed yet
NoUniverse == -1

TransmittersInit ==
    [artnet |-> [universe |-> NoUniverse, socket |-> FALSE, isRunning |-> FALSE,
                 sequence |-> 0],
     sacn |-> [sender |-> FALSE, isRunning |-> FALSE]]

\* no datagram sent yet: the count of the datagrams sent, and the datagram
\* on its way to the receiver with the arguments it was built from
NothingSent == [sends |-> 0, inFlight |-> <<>>]

\* the 512-byte channel arrays given to send
SendChannelArrays == {Fill(512, 255), [i \in 1..512 |-> (7 * i) % 256]}

\* rinfo.address of the datagrams of the transmitter
TransmitterAddress == "10.0.0.1"

\* the packet of send with the universe written big-endian
ArtNetPacket_UniverseBE(sequence, universe, channels) ==
    ARTNET_HEADER \o UInt16LE(ARTNET_OPCODE_DMX) \o UInt16BE(14)
      \o <<sequence, 0>> \o UInt16BE(universe)
      \o UInt16BE(IF Len(channels) < ARTNET_TOTAL_CHANNELS
                  THEN Len(channels) ELSE ARTNET_TOTAL_CHANNELS)
      \o SubSeq(channels, 1, IF Len(channels) < ARTNET_TOTAL_CHANNELS
                             THEN Len(channels) ELSE ARTNET_TOTAL_CHANNELS)

\* the packet ArtNetTransmitter.send builds: header, OpCode, version 14,
\* sequence, physical port 0, universe, dataLength = min(channels.length,
\* TOTAL_CHANNELS) and that many channels
ArtNetPacket(sequence, universe, channels) ==
    ARTNET_HEADER \o UInt16LE(ARTNET_OPCODE_DMX) \o UInt16BE(14)
      \o <<sequence, 0>> \o UInt16LE(universe)
      \o UInt16BE(IF Len(channels) < ARTNET_TOTAL_CHANNELS
                  THEN Len(channels) ELSE ARTNET_TOTAL_CHANNELS)
      \o SubSeq(channels, 1, IF Len(channels) < ARTNET_TOTAL_CHANNELS
                             THEN Len(channels) ELSE ARTNET_TOTAL_CHANNELS)

\* new ArtNetTransmitter({universe})
CreateArtNetTransmitter ==
    /\ tx.artnet.universe = NoUniverse
    /\ \E universe \in TransmitterUniverses :
        tx' = [tx EXCEPT !.artnet.universe = universe]
    /\ emitted' = <<>>
    /\ lastOp' = [op |-> "createTransmitter"]
    /\ UNCHANGED <<now, sacnVars, recVars, artnet, decoded, discovery, wire>>

\* ArtNetTransmitter.start(): a start of a running transmitter returns at once
TransmitterStart ==
    /\ tx.artnet.universe # NoUniverse
    /\ tx' = IF tx.artnet.isRunning THEN tx
             ELSE [tx EXCEPT !.artnet.socket = TRUE, !.artnet.isRunning = TRUE]
    /\ emitted' = <<>>
    /\ lastOp' = [op |-> "transmitterStart"]
    /\ UNCHANGED <<now, sacnVars, recVars, artnet, decoded, discovery, wire>>

\* ArtNetTransmitter.stop() without its first test: socket.close() of no
\* socket raises
TransmitterStop_Unguarded ==
    /\ tx.artnet.universe # NoUniverse
    /\ tx' = [tx EXCEPT !.artnet.socket = FALSE, !.artnet.isRunning = FALSE]
    /\ emitted' = <<>>
    /\ lastOp' = [op |-> "transmitterStop", wasRunning |-> tx.artnet.isRunning,
                  threw |-> ~tx.artnet.socket]
    /\ UNCHANGED <<now, sacnVars, recVars, artnet, decoded, discovery, wire>>

\* ArtNetTransmitter.stop(): a stop of a transmitter that is not running
\* returns at once
TransmitterStop ==
    /\ tx.artnet.universe # NoUniverse
    /\ tx' = IF ~tx.artnet.isRunning \/ ~tx.artnet.socket THEN tx
             ELSE [tx EXCEPT !.artnet.socket = FALSE, !.artnet.isRunning = FALSE]
    /\ emitted' = <<>>
    /\ lastOp' = [op |-> "transmitterStop", wasRunning |-> tx.artnet.isRunning,
                  threw |-> FALSE]
    /\ UNCHANGED <<now, sacnVars, recVars, artnet, decoded, discovery, wire>>

\* ArtNetTransmitter.send(channels), once the datagram sent before it has
\* been received
TransmitterSend(arrays, maxSends) ==
    /\ tx.artnet.universe # NoUniverse
    /\ wire.inFlight = <<>>
    /\ wire.sends < maxSends
    /\ \E channels \in arrays :
        IF ~tx.artnet.socket \/ ~tx.artnet.isRunning
        THEN /\ tx' = tx
             /\ wire' = wire
             /\ lastOp' = [op |-> "send", sent |-> FALSE]
        ELSE /\ tx' = [tx EXCEPT !.artnet.sequence = (@ + 1) % 256]
             /\ wire' = [sends |-> wire.sends + 1,
                         inFlight |-> <<[msg |-> ArtNetPacket(tx.artnet.sequence,
                                                    tx.artnet.universe, channels),
                                         universe |-> tx.artnet.universe,
                                         channels |-> channels,
                                         count |-> wire.sends]>>]
             /\ lastOp' = [op |-> "send", sent |-> TRUE]
    /\ emitted' = <<>>
    /\ UNCHANGED <<now, sacnVars, recVars, artnet, decoded, discovery>>

\* SACNTransmitter.start(): a start of a running transmitter returns at
\* once; otherwise the Sender is made
SacnTransmitterStart ==
    /\ tx' = IF tx.sacn.isRunning THEN tx
             ELSE [tx EXCEPT !.sacn.sender = TRUE, !.sacn.isRunning = TRUE]
    /\ emitted' = <<>>
    /\ lastOp' = [op |-> "sacnTransmitterStart"]
    /\ UNCHANGED <<now, sacnVars, recVars, artnet, decoded, discovery, wire>>

\* SACNTransmitter.stop(): a stop of a transmitter that is not running
\* returns at once; otherwise the Sender is closed
SacnTransmitterStop ==
    /\ tx' = IF ~tx.sacn.isRunning \/ ~tx.sacn.sender THEN tx
             ELSE [tx EXCEPT !.sacn.sender = FALSE, !.sacn.isRunning = FALSE]
    /\ emitted' = <<>>
    /\ lastOp' = [op |-> "sacnTransmitterStop", wasRunning |-> tx.sacn.isRunning,
                  threw |-> FALSE]
    /\ UNCHANGED <<now, sacnVars, recVars, artnet, decoded, discovery, wire>>

\* the datagram of the transmitter reaches the receiver's "message" listener
ArtNetDeliver(maxPackets) ==
    /\ wire.inFlight # <<>>
    /\ ArtNetMessage({[msg |-> wire.inFlight[1].msg, address |-> TransmitterAddress]},
                     maxPackets)
    /\ wire' = [wire EXCEPT !.inFlight = <<>>]

\* nothing observed yet of the discoveries: the calls of startDiscovery,
\* the ArtPoll datagrams sent, the senders of the replies received since the
\* last ArtPoll, and what the calls returned
NothingDiscovered == [calls |-> 0, polls |-> 0, replied |-> {}, returned |-> <<>>]

Init ==
    /\ handler = HandlerInit
    /\ now = 0
    /\ emitted = <<>>
    /\ lastOp = [op |-> "init"]
    /\ sentTo = NoneSentTo
    /\ recorder = RecorderInit
    /\ player = PlayerInit
    /\ disk = <<>>
    /\ written = NothingWritten
    /\ played = NothingPlayed
    /\ artnet = ArtNetInit
    /\ decoded = NothingDecoded
    /\ discovery = NothingDiscovered
    /\ tx = TransmittersInit
    /\ wire = NothingSent

Receive == HandlePacket(PacketsOneUniverse, MaxPackets)

Next ==
    \/ Start
    \/ Stop
    \/ Receive
    \/ CleanupStaleSources
    \/ Tick

\* the arbitrator with every sender on one universe
Spec == Init /\ [][Next]_vars

ReceiveFew == HandlePacket(PacketsOneUniverse, MaxPacketsFair)

NextFair ==
    \/ Start
    \/ Stop
    \/ ReceiveFew
    \/ CleanupStaleSources
    \/ Tick

\* setInterval runs the sweep again and again while the handler runs
FairSpec == Init /\ [][NextFair]_vars /\ WF_vars(CleanupStaleSources)

ReceiveTwoUniverses == HandlePacket(Packets, MaxPacketsTwoUniverses)

NextTwoUniverses ==
    \/ Start
    \/ Stop
    \/ ReceiveTwoUniverses
    \/ CleanupStaleSources
    \/ Tick

\* the arbitrator with senders on two universes
SpecTwoUniverses == Init /\ [][NextTwoUniverses]_vars

(***************************************************************************)
(* Actions of DMXRecorder and DMXPlayer                                    *)
(***************************************************************************)
\* startRecording that opens a file while one is being recorded
StartRecordingCall_NoGuard(maxRecordings) ==
    /\ written.recordings < maxRecordings
    /\ LET opened == [recorder EXCEPT !.protocol = "sacn", !.universe = 1,
                                      !.filePath = "dmx-recording.dmxrec",
                                      !.fileHandle = "fd"]
       IN /\ disk' = createHeader(opened, 0)
          /\ recorder' = [opened EXCEPT !.bytesWritten = HEADER_SIZE,
                                        !.previousChannels = ZeroChannels,
                                        !.startTime = now,
                                        !.lastFrameTime = now,
                                        !.lastSnapshotTime = now,
                                        !.frameCount = 0,
                                        !.writeBuffer = <<>>,
                                        !.state = "recording"]
    /\ written' = [NothingWritten EXCEPT !.recordings = written.recordings + 1]
    /\ emitted' = <<>>
    /\ lastOp' = [op |-> "startRecording", threw |-> FALSE]
    /\ UNCHANGED <<now, sacnVars, player, played, artnetVars>>

\* startRecording("sacn", 1), for at most maxRecordings recordings; a call
\* while recording throws "Already recording"
StartRecordingCall(maxRecordings) ==
    IF recorder.state = "recording"
    THEN /\ lastOp' = [op |-> "startRecording", threw |-> TRUE]
         /\ emitted' = <<>>
         /\ UNCHANGED <<now, sacnVars, recVars, artnetVars>>
    ELSE
    /\ written.recordings < maxRecordings
    /\ LET opened == [recorder EXCEPT !.protocol = "sacn", !.universe = 1,
                                      !.filePath = "dmx-recording.dmxrec",
                                      !.fileHandle = "fd"]
       IN /\ disk' = createHeader(opened, 0)
          /\ recorder' = [opened EXCEPT !.bytesWritten = HEADER_SIZE,
                                        !.previousChannels = ZeroChannels,
                                        !.startTime = now,
                                        !.lastFrameTime = now,
                                        !.lastSnapshotTime = now,
                                        !.frameCount = 0,
                                        !.writeBuffer = <<>>,
                                        !.state = "recording"]
    /\ written' = [NothingWritten EXCEPT !.recordings = written.recordings + 1]
    /\ emitted' = <<>>
    /\ lastOp' = [op |-> "startRecording", threw |-> FALSE]
    /\ UNCHANGED <<now, sacnVars, player, played, artnetVars>>

\* startRecording of the one recording that is played back later
StartRecording ==
    /\ recorder.state # "recording"
    /\ StartRecordingCall(1)

\* recordFrame(channels); a call while idle returns at once
RecordFrame(maxFrames, arrays) ==
    /\ recorder.state = "recording"
    /\ recorder.frameCount < maxFrames
    /\ \E channels \in arrays :
        LET w == recordFrame([rec |-> recorder, disk |-> disk], channels, now)
            before == disk \o recorder.writeBuffer
            after == w.disk \o w.rec.writeBuffer
            wrote == Len(after) > Len(before)
        IN /\ recorder' = w.rec
           /\ disk' = w.disk
           /\ written' = IF wrote
                         THEN [written EXCEPT !.frames = Append(@,
                                  [deltaTime |-> IF recorder.frameCount = 0 THEN 0
                                                 ELSE now - recorder.lastFrameTime,
                                   channels |-> channels,
                                   time |-> now,
                                   bytes |-> SubSeq(after, Len(before) + 1, Len(after))])]
                         ELSE [written EXCEPT !.skipped = TRUE, !.skippedAt = now]
           /\ lastOp' = [op |-> "recordFrame", channels |-> channels, wrote |-> wrote]
    /\ emitted' = <<>>
    /\ UNCHANGED <<now, sacnVars, player, played, artnetVars>>

\* stopRecording(); a call while idle throws "Not recording"
StopRecordingCall ==
    IF recorder.state # "recording"
    THEN /\ lastOp' = [op |-> "stopRecording", threw |-> TRUE]
         /\ emitted' = <<>>
         /\ UNCHANGED <<now, sacnVars, recVars, artnetVars>>
    ELSE
    /\ LET flushed == flushBuffer([rec |-> recorder, disk |-> disk])
           duration == now - recorder.startTime
           header == createHeader(flushed.rec, duration)
       IN /\ disk' = IF flushed.rec.fileHandle # NULL
                     THEN header \o SubSeq(flushed.disk, HEADER_SIZE + 1, Len(flushed.disk))
                     ELSE flushed.disk
          /\ recorder' = [flushed.rec EXCEPT !.fileHandle = NULL, !.state = "idle"]
    /\ emitted' = <<>>
    /\ lastOp' = [op |-> "stopRecording", threw |-> FALSE]
    /\ UNCHANGED <<now, sacnVars, player, written, played, artnetVars>>

\* stopRecording of the recording that is played back later
StopRecording ==
    /\ recorder.state = "recording"
    /\ StopRecordingCall

\* time passes while the recorder records
RecordingTick ==
    /\ recorder.state = "recording"
    /\ Tick

\* a file that readFileSync returns, and one it throws for
FileOf(bytes) == [readable |-> TRUE, bytes |-> bytes]

Unreadable == [readable |-> FALSE]

\* load(filePath) where the path holds file: stop() while playing, the path
\* kept, then readFileSync and parseHeader, which throw or give the header
LoadPath(filePath, file) ==
    /\ player' = IF file.readable /\ ValidHeader(file.bytes)
                 THEN [player EXCEPT
                          !.playbackTimer = IF player.state = "playing" THEN NoTimer ELSE @,
                          !.pausedPosition = IF player.state = "playing" THEN 0 ELSE @,
                          !.filePath = filePath,
                          !.header = parseHeader(file.bytes),
                          !.frameData = SubSeq(file.bytes, HEADER_SIZE + 1, Len(file.bytes)),
                          !.frameOffset = 0,
                          !.frameIndex = <<>>,
                          !.frameIndexBuilt = FALSE,
                          !.channels = ZeroChannels,
                          !.currentFrame = 0,
                          !.currentPosition = 0,
                          !.state = "idle"]
                 ELSE [(IF player.state = "playing"
                        THEN [Rewind(player) EXCEPT !.playbackTimer = NoTimer,
                                                    !.pausedPosition = 0,
                                                    !.state = "idle"]
                        ELSE player)
                          EXCEPT !.filePath = filePath]
    /\ emitted' = IF player.state = "playing"
                  THEN <<[event |-> "stateChange", state |-> "idle"],
                         [event |-> "position", position |-> 0],
                         [event |-> "frame", channels |-> ZeroChannels]>>
                  ELSE <<>>
    /\ played' = NothingPlayed
    /\ lastOp' = [op |-> "load", filePath |-> filePath,
                  threw |-> ~(file.readable /\ ValidHeader(file.bytes))]
    /\ UNCHANGED <<now, sacnVars, recorder, disk, written, artnetVars>>

\* load(path) of the finished recording
Load ==
    /\ recorder.state = "idle"
    /\ disk # <<>>
    /\ LoadPath("dmx-recording.dmxrec", FileOf(disk))

\* play() called in playback mode, not while a recording is made: with no
\* recording loaded it throws, while playing it returns at once
\* play() that goes on from where the player is in every state
PlayFrom_NoRewind(p) ==
    scheduleNextFrame([p EXCEPT !.state = "playing"], FALSE)

PlayFrom(p) ==
    scheduleNextFrame([(IF p.state # "paused" THEN Rewind(p) ELSE p)
                          EXCEPT !.state = "playing"], FALSE)

Play ==
    /\ recorder.state = "idle"
    /\ IF ~IsLoaded(player)
       THEN /\ lastOp' = [op |-> "play", threw |-> TRUE, resumed |-> FALSE,
                          looped |-> FALSE,
                          from |-> player.state, stoppedAt |-> NoOffset]
            /\ emitted' = <<>>
            /\ UNCHANGED <<player, played>>
       ELSE IF player.state = "playing"
       THEN /\ lastOp' = [op |-> "play", threw |-> FALSE, resumed |-> FALSE,
                          looped |-> FALSE,
                          from |-> player.state, stoppedAt |-> NoOffset]
            /\ emitted' = <<>>
            /\ UNCHANGED <<player, played>>
       ELSE \E scheduled \in {PlayFrom(player)} :
            /\ player' = scheduled.p
            /\ emitted' = StateChangeEvents(player, "playing") \o scheduled.events
            /\ played' = IF player.state # "paused" /\ ~scheduled.looped
                         THEN [uninterrupted |-> TRUE, frames |-> <<>>]
                         ELSE IF scheduled.looped THEN NothingPlayed ELSE played
            /\ lastOp' = [op |-> "play", threw |-> scheduled.threw,
                          looped |-> scheduled.looped,
                          resumed |-> player.state = "paused",
                          from |-> player.state,
                          stoppedAt |-> IF lastOp.op = "seek"
                                        THEN lastOp.stoppedAt ELSE NoOffset]
    /\ UNCHANGED <<now, sacnVars, recorder, disk, written, artnetVars>>

\* pause() that leaves the frame timer running
Pause_KeepTimer ==
    /\ recorder.state = "idle"
    /\ IF player.state # "playing"
       THEN /\ emitted' = <<>>
            /\ UNCHANGED <<player, played>>
       ELSE /\ player' = [player EXCEPT !.pausedPosition = player.currentPosition,
                                        !.state = "paused"]
            /\ emitted' = StateChangeEvents(player, "paused")
            /\ played' = NothingPlayed
    /\ lastOp' = [op |-> "pause", from |-> player.state]
    /\ UNCHANGED <<now, sacnVars, recorder, disk, written, artnetVars>>

\* pause(); a call in another state than playing returns at once
Pause ==
    /\ recorder.state = "idle"
    /\ IF player.state # "playing"
       THEN /\ emitted' = <<>>
            /\ UNCHANGED <<player, played>>
       ELSE /\ player' = [player EXCEPT !.playbackTimer = NoTimer,
                                        !.pausedPosition = player.currentPosition,
                                        !.state = "paused"]
            /\ emitted' = StateChangeEvents(player, "paused")
            /\ played' = NothingPlayed
    /\ lastOp' = [op |-> "pause", from |-> player.state]
    /\ UNCHANGED <<now, sacnVars, recorder, disk, written, artnetVars>>

\* togglePlayPause(): pause() while playing, else play(), after a reset to
\* the beginning when finished
TogglePlayPause ==
    /\ recorder.state = "idle"
    /\ IF player.state = "playing"
       THEN /\ player' = [player EXCEPT !.playbackTimer = NoTimer,
                                        !.pausedPosition = player.currentPosition,
                                        !.state = "paused"]
            /\ emitted' = StateChangeEvents(player, "paused")
            /\ played' = NothingPlayed
            /\ lastOp' = [op |-> "togglePlayPause", threw |-> FALSE,
                          looped |-> FALSE, from |-> player.state]
       ELSE \E reset \in {IF player.state = "finished"
                          THEN [Rewind(player) EXCEPT !.pausedPosition = 0]
                          ELSE player} :
            IF ~IsLoaded(reset)
            THEN /\ player' = reset
                 /\ emitted' = <<>>
                 /\ played' = played
                 /\ lastOp' = [op |-> "togglePlayPause", threw |-> TRUE,
                               looped |-> FALSE, from |-> player.state]
            ELSE \E scheduled \in {PlayFrom(reset)} :
                 /\ player' = scheduled.p
                 /\ emitted' = StateChangeEvents(reset, "playing") \o scheduled.events
                 /\ played' = IF player.state # "paused" /\ ~scheduled.looped
                              THEN [uninterrupted |-> TRUE, frames |-> <<>>]
                              ELSE IF scheduled.looped THEN NothingPlayed ELSE played
                 /\ lastOp' = [op |-> "togglePlayPause", threw |-> scheduled.threw,
                               looped |-> scheduled.looped, from |-> player.state]
    /\ UNCHANGED <<now, sacnVars, recorder, disk, written, artnetVars>>

\* stop() that leaves the frame timer running
PlayerStop_KeepTimer ==
    /\ recorder.state = "idle"
    /\ player' = [Rewind(player) EXCEPT !.pausedPosition = 0, !.state = "idle"]
    /\ emitted' = StateChangeEvents(player, "idle") \o
                  (IF player.header # NoHeader
                   THEN <<[event |-> "position", position |-> 0]>> ELSE <<>>) \o
                  <<[event |-> "frame", channels |-> ZeroChannels]>>
    /\ played' = NothingPlayed
    /\ lastOp' = [op |-> "stop", from |-> player.state,
                  cancelled |-> player.playbackTimer.pending]
    /\ UNCHANGED <<now, sacnVars, recorder, disk, written, artnetVars>>

\* stop() of the player
PlayerStop ==
    /\ recorder.state = "idle"
    /\ player' = [Rewind(player) EXCEPT !.playbackTimer = NoTimer,
                                        !.pausedPosition = 0,
                                        !.state = "idle"]
    /\ emitted' = StateChangeEvents(player, "idle") \o
                  (IF player.header # NoHeader
                   THEN <<[event |-> "position", position |-> 0]>> ELSE <<>>) \o
                  <<[event |-> "frame", channels |-> ZeroChannels]>>
    /\ played' = NothingPlayed
    /\ lastOp' = [op |-> "stop", from |-> player.state,
                  cancelled |-> player.playbackTimer.pending]
    /\ UNCHANGED <<now, sacnVars, recorder, disk, written, artnetVars>>

\* seek(positionMs) for a position of targets; a call with nothing loaded
\* returns at once
Seek(targets) ==
    /\ IsLoaded(player)
    /\ \E positionMs \in targets :
        \E sought \in {seek(player, positionMs)} :
           /\ player' = sought.p
           /\ emitted' = sought.events
           /\ lastOp' = [op |-> "seek", target |-> sought.targetPosition,
                         wasPlaying |-> sought.wasPlaying,
                         repeated |-> /\ lastOp.op = "seek"
                                      /\ lastOp.target = sought.targetPosition,
                         stoppedAt |-> sought.stoppedAt,
                         threw |-> sought.threw,
                         looped |-> sought.looped]
    /\ played' = NothingPlayed
    /\ UNCHANGED <<now, sacnVars, recorder, disk, written, artnetVars>>

\* setSpeed(speed) on a loaded player: the speed clamped to 0.1 .. 10.0
SetSpeed ==
    /\ IsLoaded(player)
    /\ \E speed \in SpeedInputs :
        /\ player' = [player EXCEPT !.speed = setSpeed(speed)]
        /\ lastOp' = [op |-> "setSpeed", speed |-> speed]
    /\ emitted' = <<>>
    /\ UNCHANGED <<now, sacnVars, recorder, disk, written, played, artnetVars>>

\* setLoop(enabled) on a loaded player
SetLoop ==
    /\ IsLoaded(player)
    /\ \E enabled \in BOOLEAN :
        /\ player' = [player EXCEPT !.loopEnabled = enabled]
        /\ lastOp' = [op |-> "setLoop", enabled |-> enabled]
    /\ emitted' = <<>>
    /\ UNCHANGED <<now, sacnVars, recorder, disk, written, played, artnetVars>>

\* toggleLoop() on a loaded player
ToggleLoop ==
    /\ IsLoaded(player)
    /\ player' = [player EXCEPT !.loopEnabled = ~player.loopEnabled]
    /\ lastOp' = [op |-> "toggleLoop"]
    /\ emitted' = <<>>
    /\ UNCHANGED <<now, sacnVars, recorder, disk, written, played, artnetVars>>

\* the setTimeout callback of scheduleNextFrame fires
FrameTimer ==
    /\ player.playbackTimer.pending
    /\ \E applied \in {[player EXCEPT
                            !.channels = ApplyFrame(@, player.playbackTimer.frame),
                            !.currentFrame = @ + 1,
                            !.playbackTimer = NoTimer]} :
       \E scheduled \in {scheduleNextFrame(applied, FALSE)} :
          /\ player' = scheduled.p
          /\ emitted' = <<[event |-> "frame", channels |-> applied.channels],
                          [event |-> "position", position |-> applied.currentPosition]>>
                        \o scheduled.events
          /\ played' = IF scheduled.looped THEN NothingPlayed
                       ELSE IF played.uninterrupted
                       THEN [played EXCEPT !.frames = Append(@, applied.channels)]
                       ELSE played
          /\ lastOp' = [op |-> "frameTimer", threw |-> scheduled.threw,
                        looped |-> scheduled.looped]
    /\ UNCHANGED <<now, sacnVars, recorder, disk, written, artnetVars>>

Record == RecordFrame(MaxFrames, ChannelArrays)

NextRec ==
    \/ StartRecording
    \/ Record
    \/ StopRecording
    \/ RecordingTick
    \/ Load
    \/ Play
    \/ Pause
    \/ PlayerStop
    \/ FrameTimer

\* one recording made, then loaded and played back
SpecRec == Init /\ [][NextRec]_vars

RecordShort == RecordFrame(MaxFramesSeek, SeekChannelArrays)

SeekAnywhere == Seek(SeekTargets)

NextSeek ==
    \/ StartRecording
    \/ RecordShort
    \/ StopRecording
    \/ RecordingTick
    \/ Load
    \/ Play
    \/ Pause
    \/ PlayerStop
    \/ SeekAnywhere
    \/ FrameTimer

StartAgain == StartRecordingCall(MaxRecordings)

RecordEach == RecordFrame(MaxFramesEach, ChannelArrays)

NextRecorder ==
    \/ StartAgain
    \/ RecordEach
    \/ StopRecordingCall
    \/ Tick

\* one DMXRecorder making recordings one after the other
SpecRecorder == Init /\ [][NextRecorder]_vars

\* one recording made, then loaded, played back and sought in
SpecSeek == Init /\ [][NextSeek]_vars

RecordBrief == RecordFrame(MaxFramesPlayer, SeekChannelArrays)

SeekInside == Seek(PlayerSeekTargets)

NextPlayer ==
    \/ StartRecording
    \/ RecordBrief
    \/ StopRecording
    \/ RecordingTick
    \/ Load
    \/ Play
    \/ Pause
    \/ TogglePlayPause
    \/ PlayerStop
    \/ SeekInside
    \/ SetSpeed
    \/ SetLoop
    \/ ToggleLoop
    \/ FrameTimer

\* one recording made, then loaded and played under every control of the player
SpecPlayer == Init /\ [][NextPlayer]_vars

\* the Art-Net receiver under the traffic of ArtNetTraffic
ArtNetReceive ==
    /\ ArtNetMessage(ArtNetTraffic, MaxArtNetPackets)
    /\ UNCHANGED wire

\* time passes while the Art-Net receiver runs
ArtNetTick ==
    /\ now < MaxArtNetTime
    /\ Tick

NextArtNet ==
    \/ ArtNetStart
    \/ ArtNetStop
    \/ ArtNetReceive
    \/ ArtNetTick

SpecArtNet == Init /\ [][NextArtNet]_vars

\* the Art-Net transmitter sending to the Art-Net receiver
Send == TransmitterSend(SendChannelArrays, MaxSends)

Deliver == ArtNetDeliver(MaxSends)

NextWire ==
    \/ CreateArtNetTransmitter
    \/ TransmitterStart
    \/ TransmitterStop
    \/ Send
    \/ ArtNetStart
    \/ Deliver

SpecWire == Init /\ [][NextWire]_vars

\* discovery of the Art-Net nodes: ArtPollReply datagrams of every sender
ReplyTraffic ==
    {[msg |-> m, address |-> a] : m \in OtherDatagrams, a \in ArtNetAddresses}

ReceiveReply ==
    /\ ArtNetMessage(ReplyTraffic, MaxArtNetPackets)
    /\ UNCHANGED wire

Discover == StartDiscovery({DEFAULT_DISCOVERY_TIMEOUT}, MaxDiscoveryCalls)

NextDiscovery ==
    \/ ArtNetStart
    \/ ArtNetStop
    \/ Discover
    \/ DiscoveryTimeout
    \/ DiscoveryTick
    \/ ReceiveReply

SpecDiscovery == Init /\ [][NextDiscovery]_vars

\* the clock advances and the timeout fires
FairDiscovery ==
    SpecDiscovery /\ WF_vars(DiscoveryTick) /\ WF_vars(DiscoveryTimeout)

\* every component that has a stop(), started and stopped in any order
RecordOne == RecordFrame(MaxFramesStop, SeekChannelArrays)

SeekStart == Seek({0})

NextStop ==
    \/ Start
    \/ Stop
    \/ StopStopped
    \/ ArtNetStart
    \/ ArtNetStop
    \/ CreateArtNetTransmitter
    \/ TransmitterStart
    \/ TransmitterStop
    \/ SacnTransmitterStart
    \/ SacnTransmitterStop
    \/ StartRecording
    \/ RecordOne
    \/ StopRecording
    \/ Load
    \/ Play
    \/ SeekStart
    \/ PlayerStop

SpecStop == Init /\ [][NextStop]_vars

(***************************************************************************)
(* Properties of the sACN arbitrator                                       *)
(***************************************************************************)
Sources == handler.sources

EntryOf(sources, key) == sources[IndexOf(sources, key)]

KeysOf(sources) == {sources[i].key : i \in 1..Len(sources)}

EmittedEvents(kind) == {i \in 1..Len(emitted) : emitted[i].event = kind}

PacketEmitted == EmittedEvents("packet") # {}

\* C1: at most one tracked source has isActive = true; when the table is not
\* empty exactly one has it, it is the source activeSource names and no tracked
\* source has a greater priority; when the table is empty activeSource is null.
C1_ArbitrationInvariant ==
    LET active == {i \in 1..Len(Sources) : Sources[i].isActive}
    IN /\ Cardinality(active) <= 1
       /\ Sources # <<>> =>
            /\ Cardinality(active) = 1
            /\ \A i \in active :
                /\ Sources[i].key = handler.activeSource
                /\ \A j \in 1..Len(Sources) : Sources[i].priority >= Sources[j].priority
       /\ Sources = <<>> => handler.activeSource = NULL

\* a sweep has removed a source and left two sources of different priority
C1_Witness ==
    /\ lastOp.op = "cleanup"
    /\ Len(lastOp.removed) > 0
    /\ Len(Sources) = 2
    /\ Sources[1].priority < Sources[2].priority
    /\ Sources[2].isActive

\* C2: a packet with a valid universe is emitted exactly when its source key is
\* the active source after the packet has been folded into the table, and it is
\* counted in its universe's packet count whether emitted or not.
C2_EmitIffActive ==
    [][lastOp'.op = "packet" =>
        /\ PacketEmitted' <=> (lastOp'.key = handler'.activeSource)
        /\ handler'.discoveredUniverses[lastOp'.universe].packetCount =
              handler.discoveredUniverses[lastOp'.universe].packetCount + 1]_vars

\* a packet of a source that is not the active one was counted and suppressed
C2_Witness ==
    /\ lastOp.op = "packet"
    /\ ~PacketEmitted
    /\ lastOp.key # handler.activeSource
    /\ handler.discoveredUniverses[lastOp.universe].packetCount >= 2

\* C3: with a source of priority 100 tracked, a packet of another source with
\* priority 150 is emitted and from then on the packets of the source with
\* priority 100 are suppressed; a sweep at which the source with priority 150
\* has been silent for more than 5000 ms while the other has not removes it and
\* makes the source with priority 100 active, and the packets of that source,
\* then alone in the table, are emitted again at priority 100.
C3_TakeoverAndFallback ==
    [][/\ (/\ lastOp'.op = "packet"
           /\ lastOp'.priority = 150
           /\ \A i \in 1..Len(Sources) :
                Sources[i].key # lastOp'.key => Sources[i].priority = 100)
          => (PacketEmitted' /\ handler'.activeSource = lastOp'.key)
       /\ (/\ lastOp'.op = "packet"
           /\ lastOp'.priority = 100
           /\ \E i \in 1..Len(Sources) :
                Sources[i].key # lastOp'.key /\ Sources[i].priority = 150)
          => ~PacketEmitted'
       /\ (/\ lastOp'.op = "cleanup"
           /\ Len(Sources) = 2
           /\ \E a, b \in 1..2 :
                /\ Sources[a].priority = 100 /\ now - Sources[a].lastSeen <= 5000
                /\ Sources[b].priority = 150 /\ now - Sources[b].lastSeen > 5000)
          => (/\ Len(Sources') = 1
              /\ Sources'[1].priority = 100
              /\ Sources'[1].isActive
              /\ handler'.activeSource = Sources'[1].key)
       /\ (/\ lastOp'.op = "packet"
           /\ lastOp'.priority = 100
           /\ KeysOf(Sources) = {lastOp'.key})
          => PacketEmitted'
      ]_vars

\* the sweep has removed the silent source with priority 150 and the source
\* with priority 100 that kept sending is active again
C3_Witness ==
    /\ lastOp.op = "cleanup"
    /\ Len(lastOp.removed) = 1
    /\ lastOp.removed[1].priority = 150
    /\ lastOp.removed[1].isActive
    /\ Len(Sources) = 1
    /\ Sources[1].priority = 100
    /\ Sources[1].lastSeen > lastOp.removed[1].lastSeen
    /\ handler.activeSource = Sources[1].key

\* the change of the active source from one tracked source to another
ActiveMovedTo(x, y) ==
    /\ handler.activeSource # NULL
    /\ handler'.activeSource # NULL
    /\ handler'.activeSource # handler.activeSource
    /\ HasKey(Sources', handler.activeSource)
    /\ x = EntryOf(Sources', handler.activeSource)
    /\ y = EntryOf(Sources', handler'.activeSource)

\* C4, as claimed: the active source changes from X to another source Y only
\* when Y's priority is strictly higher than X's current priority or X has left
\* the table.
C4_StrictlyHigherOnly ==
    [][\A i, j \in 1..Len(Sources') :
          ActiveMovedTo(Sources'[i], Sources'[j]) =>
              Sources'[j].priority > Sources'[i].priority]_vars

\* C4, amended: the active source changes from X to another source Y only when
\* X has left the table, or Y's priority is strictly higher than X's current
\* priority, or the two priorities are equal and Y entered the table before X:
\* among the sources of highest priority the one tracked longest is active.
C4_HigherOrEarlier ==
    [][\A i, j \in 1..Len(Sources') :
          ActiveMovedTo(Sources'[i], Sources'[j]) =>
              \/ Sources'[j].priority > Sources'[i].priority
              \/ Sources'[j].priority = Sources'[i].priority /\ j < i]_vars

\* a source tracked before the active one has raised its priority to that of
\* the active one and has become the active source
C4_Witness ==
    /\ lastOp.op = "packet"
    /\ Len(Sources) = 2
    /\ Sources[1].key = lastOp.key
    /\ Sources[1].priority = Sources[2].priority
    /\ handler.activeSource = lastOp.key
    /\ EmittedEvents("sourcesChanged") # {}

\* C5: a packet for universe U is suppressed only if another tracked source
\* that has sent to U has a priority at least as high; a source that has sent
\* to other universes only never causes the suppression.
C5_PerUniverse ==
    (lastOp.op = "packet" /\ ~PacketEmitted) =>
        \E i \in 1..Len(Sources) :
            /\ Sources[i].key # lastOp.key
            /\ Sources[i].priority >= lastOp.priority
            /\ lastOp.universe \in sentTo[Sources[i].key]

\* C6: a sweep removes exactly the sources last seen more than 5000 ms before
\* it and leaves the others as they are; after it the active source is the
\* highest-priority source that remains, or null if none remains; the next
\* packet handled with an empty table is emitted; and whenever tracked sources
\* have been silent for more than 5000 ms, a later state tracks none of them.
C6_StaleSweep ==
    /\ [][lastOp'.op = "cleanup" =>
            LET fresh == {i \in 1..Len(Sources) : now - Sources[i].lastSeen <= 5000}
            IN /\ Len(Sources') = Cardinality(fresh)
               /\ \A i \in fresh : \E j \in 1..Len(Sources') :
                    /\ Sources'[j].key = Sources[i].key
                    /\ Sources'[j].priority = Sources[i].priority
                    /\ Sources'[j].lastSeen = Sources[i].lastSeen
               /\ fresh = {} => handler'.activeSource = NULL
               /\ fresh # {} =>
                    \E j \in 1..Len(Sources') :
                        /\ Sources'[j].key = handler'.activeSource
                        /\ Sources'[j].isActive
                        /\ \A k \in 1..Len(Sources') :
                              Sources'[j].priority >= Sources'[k].priority]_vars
    /\ [][(Sources = <<>> /\ lastOp'.op = "packet") => PacketEmitted']_vars
    /\ (\E i \in 1..Len(Sources) : now - Sources[i].lastSeen > 5000)
          ~> (\A i \in 1..Len(Sources) : now - Sources[i].lastSeen <= 5000)

\* a sweep has removed a source and kept one last seen exactly 5000 ms ago
C6_Witness ==
    /\ lastOp.op = "cleanup"
    /\ Len(lastOp.removed) > 0
    /\ \E i \in 1..Len(Sources) : now - Sources[i].lastSeen = 5000

\* the payload of a sourcesChanged event that reports the table: every tracked
\* source once, by descending priority, isActive set for the active source only
ReportsTable(payload, h) ==
    /\ Len(payload) = Len(h.sources)
    /\ KeysOf(payload) = KeysOf(h.sources)
    /\ \A i \in 1..Len(payload) :
          /\ payload[i] = EntryOf(h.sources, payload[i].key)
          /\ payload[i].isActive <=> (payload[i].key = h.activeSource)
    /\ \A i, j \in 1..Len(payload) : i < j => payload[i].priority >= payload[j].priority

TableChanged ==
    \/ KeysOf(Sources') # KeysOf(Sources)
    \/ handler'.activeSource # handler.activeSource

\* C7, as claimed: every step that adds a source, removes a source or changes
\* the active source emits a sourcesChanged event that reports the table.
C7_EveryChangeNotified ==
    [][TableChanged =>
        \E e \in EmittedEvents("sourcesChanged")' :
            ReportsTable(emitted'[e].sources, handler')]_vars

\* C7, amended: every handled packet and every sweep that adds a source,
\* removes a source or changes the active source emits a sourcesChanged event
\* that reports the table; stop() empties the table and emits 'close' only.
C7_ChangeNotifiedUnlessStop ==
    [][/\ (TableChanged /\ lastOp'.op # "stop") =>
            \E e \in EmittedEvents("sourcesChanged")' :
                ReportsTable(emitted'[e].sources, handler')
       /\ lastOp'.op = "stop" =>
            /\ Sources' = <<>>
            /\ handler'.activeSource = NULL
            /\ emitted' = <<[event |-> "close"]>>]_vars

\* a packet has added a third source below the active one and the table was
\* reported
C7_Witness ==
    /\ lastOp.op = "packet"
    /\ Len(Sources) = 3
    /\ Sources[3].key = lastOp.key
    /\ Sources[3].lastSeen = now
    /\ lastOp.key # handler.activeSource
    /\ \E e \in EmittedEvents("sourcesChanged") :
          ReportsTable(emitted[e].sources, handler)

(***************************************************************************)
(* Properties of the recording codec and of the playback engine            *)
(***************************************************************************)
\* C8: while a loaded recording plays uninterrupted from the start, the channel
\* array after the k-th frame the timer applies is the array recordFrame was
\* given for the k-th frame it wrote, and at the end exactly the written frames
\* have been played; a frame equal to the last written one, given less than
\* 5000 ms after the last snapshot, adds no byte to the file or the buffer and
\* no frame.
C8_RoundTrip ==
    /\ [](played.uninterrupted =>
            /\ Len(played.frames) <= Len(written.frames)
            /\ \A k \in 1..Len(played.frames) :
                  played.frames[k] = written.frames[k].channels
            /\ player.state = "finished" => Len(played.frames) = Len(written.frames))
    /\ [][(/\ lastOp'.op = "recordFrame"
           /\ written.frames # <<>>
           /\ lastOp'.channels = written.frames[Len(written.frames)].channels
           /\ now - recorder.lastSnapshotTime < 5000)
          => (/\ disk' = disk
              /\ recorder'.writeBuffer = recorder.writeBuffer
              /\ recorder'.frameCount = recorder.frameCount
              /\ written'.frames = written.frames)]_vars

\* a recording of a snapshot and two delta frames, made with an unchanged frame
\* skipped, has been played to its end
C8_Witness ==
    /\ player.state = "finished"
    /\ played.uninterrupted
    /\ written.skipped
    /\ Len(written.frames) = 3
    /\ Len(played.frames) = 3
    /\ written.frames[2].deltaTime > 0
    /\ written.frames[3].deltaTime > 0
    /\ written.frames[2].deltaTime + written.frames[3].deltaTime < 5000 + 2500
    /\ player.channels = written.frames[3].channels

\* what uninterrupted playback from the start holds at position T: the frames
\* read from player p on, applied to channels while their cumulative position
\* is at most T
RECURSIVE LivePlayback(_, _, _, _)

LivePlaybackRead(read, channels, position, T) ==
    IF read.frame = NoFrame \/ position + read.frame.deltaTime > T
    THEN channels
    ELSE LivePlayback(read.p, ApplyFrame(channels, read.frame),
                      position + read.frame.deltaTime, T)

LivePlayback(p, channels, position, T) ==
    LivePlaybackRead(readNextFrame(p), channels, position, T)

LiveChannelsAt(T) ==
    LivePlayback([player EXCEPT !.frameOffset = 0], ZeroChannels, 0, T)

\* C9: after seek(T) in a recording whose frames lie at distinct positions,
\* the channel array is the one uninterrupted playback from the start holds
\* at position T.
C9_SeekEqualsLive ==
    (/\ lastOp.op = "seek"
     /\ \A k \in 2..Len(written.frames) : written.frames[k].deltaTime > 0)
    => player.channels = LiveChannelsAt(lastOp.target)

\* C10: when the replay of seek(T) stops at a frame that lies past T, the
\* frame the timer applies first, after a seek issued while playing or after
\* a play() that resumes the paused player, is that frame.
C10_ResumeAtStoppedFrame ==
    (/\ lastOp.op \in {"seek", "play"}
     /\ lastOp.stoppedAt # NoOffset
     /\ lastOp.op = "seek" => lastOp.wasPlaying
     /\ lastOp.op = "play" => lastOp.resumed)
    => (/\ player.playbackTimer.pending
        /\ player.playbackTimer.frame.offset = lastOp.stoppedAt)

\* C11: a seek to the target of the seek just before it leaves the channel
\* array, the current position and the read offset as that seek left them.
C11_SeekIdempotent ==
    [][(/\ lastOp.op = "seek"
        /\ lastOp'.op = "seek"
        /\ lastOp'.target = lastOp.target)
       => (/\ player'.channels = player.channels
           /\ player'.currentPosition = player.currentPosition
           /\ player'.frameOffset = player.frameOffset)]_vars

\* a seek into the middle of a playing recording has been repeated, past a
\* changed channel
C11_Witness ==
    /\ lastOp.op = "seek"
    /\ lastOp.repeated
    /\ lastOp.wasPlaying
    /\ lastOp.target > 0
    /\ player.currentPosition > 0
    /\ player.channels # ZeroChannels

\* the states the player goes through in one step: its state before, the
\* states the state-change callback is given, and its state after
StateChanges ==
    LET at == {i \in 1..Len(emitted') : emitted'[i].event = "stateChange"}
        nth(k) == CHOOSE i \in at : Cardinality({j \in at : j <= i}) = k
        told == [k \in 1..Cardinality(at) |-> emitted'[nth(k)].state]
        path == <<player.state>> \o told
    IN IF path[Len(path)] # player'.state THEN Append(path, player'.state) ELSE path

\* the transitions of the playback state machine
PlaybackEdge(from, to) ==
    \/ from = "idle" /\ to = "playing"
    \/ from = "playing" /\ to = "paused"
    \/ from = "paused" /\ to = "playing"
    \/ from = "playing" /\ to = "finished" /\ ~player.loopEnabled
    \/ from = "finished" /\ to = "playing"
    \/ to = "idle" /\ lastOp'.op \in {"stop", "load"}

\* C12: every change of the player's state goes along idle->playing,
\* playing->paused, paused->playing, playing->finished (loop disabled, at the
\* end of the stream), finished->playing (from offset 0 and position 0 with
\* zeroed channels) or any->idle (stop or load); pause() in another state
\* than playing and play() while playing change nothing of the player.
C12_PlaybackStateMachine ==
    [][LET path == StateChanges
       IN /\ \A k \in 1..(Len(path) - 1) : PlaybackEdge(path[k], path[k + 1])
          /\ (player.state # "finished" /\ player'.state = "finished")
             => (\/ player'.frameOffset >= Len(player'.frameData)
                 \/ player'.currentFrame >= player'.header.frameCount)
          /\ (player.state = "finished" /\ Len(path) >= 2 /\ path[2] = "playing")
             => (/\ player'.channels = ZeroChannels
                 /\ player'.currentFrame = 0
                 /\ IF player'.playbackTimer.pending
                    THEN /\ player'.playbackTimer.frame.offset = 0
                         /\ player'.currentPosition =
                                player'.playbackTimer.frame.deltaTime
                    ELSE /\ player'.frameOffset = 0
                         /\ player'.currentPosition = 0)
          /\ (lastOp'.op = "pause" /\ player.state # "playing") => player' = player
          /\ (lastOp'.op = "play" /\ player.state = "playing") => player' = player
      ]_vars

\* a finished player with a changed channel has been started again by play()
\* and has the first frame of the recording scheduled
C12_Witness ==
    /\ lastOp.op = "play"
    /\ lastOp.from = "finished"
    /\ player.state = "playing"
    /\ player.playbackTimer.pending
    /\ player.playbackTimer.frame.offset = 0
    /\ Len(written.frames) = 2
    /\ written.frames[2].channels # ZeroChannels

\* C13: stop() leaves the player idle at position 0, read offset 0 and frame
\* index 0 with every channel zero and no frame timer pending; a frame timer
\* is pending only while the player plays, so that no recorded frame is
\* applied or emitted by a player that is not playing.
C13_StopResets ==
    /\ [](lastOp.op = "stop" =>
            /\ player.state = "idle"
            /\ player.currentPosition = 0
            /\ player.frameOffset = 0
            /\ player.currentFrame = 0
            /\ player.channels = ZeroChannels
            /\ ~player.playbackTimer.pending)
    /\ [](player.playbackTimer.pending => player.state = "playing")
    /\ [][lastOp'.op = "frameTimer" => player.state = "playing"]_vars

\* stop() has cancelled the frame timer of a playing player
C13_Witness ==
    /\ lastOp.op = "stop"
    /\ lastOp.from = "playing"
    /\ lastOp.cancelled
    /\ Len(written.frames) = 2
    /\ written.frames[1].channels # ZeroChannels

\* the calls that end in scheduleNextFrame
SchedulingOps == {"play", "togglePlayPause", "seek", "frameTimer"}

FinishedEvents == {i \in 1..Len(emitted') : emitted'[i].event = "finished"}

\* a step that reaches the end of the stream with loop disabled makes the
\* player finished and invokes the finished callback once; with loop enabled
\* no step makes the player finished or throws, and a step that reaches the
\* end leaves the first frame of the recording scheduled, with the frame index
\* back at 0, the position at that frame's and the channels zeroed
EndOfStreamStep ==
    lastOp'.op \in SchedulingOps =>
        /\ (player'.state = "finished" /\ StateChanges # <<"finished">>)
           => (~player.loopEnabled /\ Cardinality(FinishedEvents) = 1)
        /\ player'.state # "finished" => FinishedEvents = {}
        /\ player.loopEnabled
           => (/\ player'.state = "finished" => player.state = "finished"
               /\ ~lastOp'.threw
               /\ lastOp'.looped =>
                    /\ player'.state = "playing"
                    /\ player'.playbackTimer.pending
                    /\ player'.playbackTimer.frame.offset = 0
                    /\ player'.currentFrame = 0
                    /\ player'.currentPosition = player'.playbackTimer.frame.deltaTime
                    /\ player'.channels = ZeroChannels)

\* C14: every step of the player is such a step.
C14_EndOfStream == [][EndOfStreamStep]_vars

(***************************************************************************)
(* Properties of the recorder                                              *)
(***************************************************************************)
\* C15: the recorder is idle or recording; startRecording while recording
\* and stopRecording while idle throw and leave the recorder (state, frame
\* count, previous channels, open file, buffered bytes) and the file as they
\* were; startRecording from idle ends in recording and stopRecording from
\* recording ends in idle, without throwing.
C15_RecorderStateMachine ==
    /\ [](recorder.state \in {"idle", "recording"})
    /\ [][(lastOp'.op = "startRecording" /\ recorder.state = "recording")
          => (lastOp'.threw /\ recorder' = recorder /\ disk' = disk)]_vars
    /\ [][(lastOp'.op = "stopRecording" /\ recorder.state = "idle")
          => (lastOp'.threw /\ recorder' = recorder /\ disk' = disk)]_vars
    /\ [][(lastOp'.op = "startRecording" /\ recorder.state = "idle")
          => (~lastOp'.threw /\ recorder'.state = "recording")]_vars
    /\ [][(lastOp'.op = "stopRecording" /\ recorder.state = "recording")
          => (~lastOp'.threw /\ recorder'.state = "idle")]_vars

\* startRecording has thrown on a recorder that holds a written frame and
\* buffered bytes
C15_Witness ==
    /\ lastOp.op = "startRecording"
    /\ lastOp.threw
    /\ recorder.state = "recording"
    /\ recorder.frameCount = 2
    /\ recorder.writeBuffer # <<>>

\* C16: the first frame written to a recording is the bytes of a snapshot
\* frame with delta time 0: a varint 0, the marker 0xFE and the channels given.
C16_FirstFrameSnapshot ==
    written.frames # <<>> =>
        written.frames[1].bytes = <<0, 254>> \o written.frames[1].channels

\* the first frame of a second recording, written after the clock has moved
\* on since its startRecording, with a channel changed
C16_Witness ==
    /\ written.recordings = 2
    /\ written.frames # <<>>
    /\ written.frames[1].time > recorder.startTime
    /\ written.frames[1].channels # ZeroChannels
    /\ recorder.startTime > 0

\* what a reader of the file finds in the bytes of a written frame: its
\* delta time, and whether the marker 0xFE follows it
WrittenDelta(frame) == decodeVarint(frame.bytes, 0).value

WrittenAsSnapshot(frame) ==
    LET markerAt == decodeVarint(frame.bytes, 0).bytesRead + 1
    IN /\ frame.bytes[markerAt] = 254
       /\ SubSeq(frame.bytes, markerAt + 1, Len(frame.bytes)) = frame.channels

\* the time the last snapshot among the first n written frames was written
RECURSIVE LastSnapshotTimeIn(_, _)
LastSnapshotTimeIn(frames, n) ==
    IF n = 0 THEN -1
    ELSE IF WrittenAsSnapshot(frames[n]) THEN frames[n].time
    ELSE LastSnapshotTimeIn(frames, n - 1)

\* C17: a recordFrame given 5000 ms or more after the last snapshot was
\* written writes a snapshot frame, changed channels or not; every delta
\* frame of the stream was written less than 5000 ms after the snapshot
\* before it.
C17_PeriodicSnapshot ==
    /\ [][(/\ lastOp'.op = "recordFrame"
           /\ written.frames # <<>>
           /\ now - LastSnapshotTimeIn(written.frames, Len(written.frames)) >= 5000)
          => (/\ Len(written'.frames) = Len(written.frames) + 1
              /\ WrittenAsSnapshot(written'.frames[Len(written'.frames)])
              /\ written'.frames[Len(written'.frames)].channels = lastOp'.channels)]_vars
    /\ [](\A k \in 1..Len(written.frames) :
            ~WrittenAsSnapshot(written.frames[k]) =>
                /\ LastSnapshotTimeIn(written.frames, k) >= 0
                /\ written.frames[k].time - LastSnapshotTimeIn(written.frames, k) < 5000)

\* a snapshot of unchanged channels has been written 5000 ms after the
\* first frame
C17_Witness ==
    /\ Len(written.frames) = 2
    /\ written.frames[2].channels = written.frames[1].channels
    /\ written.frames[2].time - written.frames[1].time = 5000
    /\ WrittenAsSnapshot(written.frames[2])
    /\ written.frames[1].time > recorder.startTime

\* C18: a recordFrame that needs no snapshot and is given the channels of
\* the last written frame adds no byte and leaves the recorder as it was;
\* the delta time of every written frame but the first is the time since the
\* frame written before it.
C18_UnchangedFrameNoOp ==
    /\ [][(/\ lastOp'.op = "recordFrame"
           /\ written.frames # <<>>
           /\ now - LastSnapshotTimeIn(written.frames, Len(written.frames)) < 5000
           /\ lastOp'.channels = written.frames[Len(written.frames)].channels)
          => (/\ disk' \o recorder'.writeBuffer = disk \o recorder.writeBuffer
              /\ recorder'.frameCount = recorder.frameCount
              /\ recorder'.previousChannels = recorder.previousChannels
              /\ recorder'.lastFrameTime = recorder.lastFrameTime
              /\ written'.frames = written.frames)]_vars
    /\ [](\A k \in 2..Len(written.frames) :
            WrittenDelta(written.frames[k]) =
                written.frames[k].time - written.frames[k - 1].time)
    /\ [](written.frames # <<>> => WrittenDelta(written.frames[1]) = 0)

\* a frame has been written after an unchanged frame was given, and skipped,
\* between it and the frame before it
C18_Witness ==
    /\ Len(written.frames) = 2
    /\ written.frames[1].time < written.skippedAt
    /\ written.skippedAt < written.frames[2].time
    /\ WrittenDelta(written.frames[2]) = 5000

(***************************************************************************)
(* Art-Net: what a datagram says on the wire                               *)
(***************************************************************************)
\* the fields of an ArtDmx datagram of at least 18 bytes
WireOpCode(msg) == msg[9] + 256 * msg[10]
WireVersion(msg) == 256 * msg[11] + msg[12]
WireUniverse(msg) == msg[15] + 256 * msg[16]
WireLength(msg) == 256 * msg[17] + msg[18]

HasArtNetHeader(msg) ==
    Len(msg) >= 8 /\ SubSeq(msg, 1, 8) = <<65, 114, 116, 45, 78, 101, 116, 0>>

\* a valid ArtDmx datagram
ValidArtDmx(msg) ==
    /\ Len(msg) >= 18
    /\ HasArtNetHeader(msg)
    /\ WireOpCode(msg) = 20480
    /\ WireVersion(msg) >= 14
    /\ WireUniverse(msg) <= 63999
    /\ WireLength(msg) >= 2
    /\ WireLength(msg) <= 512
    /\ Len(msg) >= 18 + WireLength(msg)

\* a datagram that is too short, or has a wrong header, or is an ArtDmx
\* datagram of an old version, of a universe out of range, of a data length
\* out of range, or cut short
MalformedArtNet(msg) ==
    IF Len(msg) < 18 THEN TRUE
    ELSE IF ~HasArtNetHeader(msg) THEN TRUE
    ELSE /\ WireOpCode(msg) = 20480
         /\ \/ WireVersion(msg) < 14
            \/ WireUniverse(msg) > 63999
            \/ WireLength(msg) < 2
            \/ WireLength(msg) > 512
            \/ Len(msg) < 18 + WireLength(msg)

\* the step is the "message" listener called with a valid ArtDmx datagram,
\* and it emits a packet of the datagram's universe whose first channels
\* are the payload and whose other channels are those of the packet decoded
\* before it for that universe, or zero where there was none
DecodeKeepsUnsent ==
    (lastOp'.op = "message" /\ ValidArtDmx(lastOp'.msg)) =>
        \E i \in 1..Len(emitted') :
            /\ emitted'[i].event = "packet"
            /\ emitted'[i].universe = WireUniverse(lastOp'.msg)
            /\ \A c \in 0..511 :
                emitted'[i].channels[c + 1] =
                    IF c < WireLength(lastOp'.msg) THEN lastOp'.msg[18 + c + 1]
                    ELSE IF decoded[WireUniverse(lastOp'.msg)] = <<>> THEN 0
                    ELSE decoded[WireUniverse(lastOp'.msg)][c + 1]

\* C19: every valid ArtDmx datagram with data length L for universe U is
\* decoded to a packet of universe U whose channels 0..L-1 are the payload
\* and whose channels L..511 have the values of the previous packet decoded
\* for that universe (zero when it is the first).
C19_KeepsUnsentChannels == [][DecodeKeepsUnsent]_vars

\* the step is the "message" listener called with a malformed datagram, and
\* it raises nothing, emits no "packet", "universeDiscovered" or "error"
\* event and leaves both tables as they were
DropsMalformed ==
    (lastOp'.op = "message" /\ MalformedArtNet(lastOp'.msg)) =>
        /\ ~lastOp'.threw
        /\ \A i \in 1..Len(emitted') :
            emitted'[i].event \notin {"packet", "universeDiscovered", "error"}
        /\ artnet'.discoveredUniverses = artnet.discoveredUniverses
        /\ artnet'.discoveredNodes = artnet.discoveredNodes

\* C20: a datagram shorter than 18 bytes, or with a wrong header, or an
\* ArtDmx datagram with a version below 14, a universe above 63999, a data
\* length outside 2..512 or fewer than 18 + length bytes, is dropped:
\* handleMessage raises nothing, emits no "packet", "universeDiscovered" or
\* "error" event, and leaves the universe table and the node table unchanged.
C20_MalformedDropped == [][DropsMalformed]_vars

\* an ArtDmx datagram cut short has been dropped by a receiver that knows a
\* universe and a node
C20_Witness ==
    /\ lastOp.op = "message"
    /\ Len(lastOp.msg) >= 18
    /\ HasArtNetHeader(lastOp.msg)
    /\ WireOpCode(lastOp.msg) = 20480
    /\ WireLength(lastOp.msg) = 4
    /\ Len(lastOp.msg) < 22
    /\ emitted = <<>>
    /\ \E u \in ArtNetUniverses : artnet.discoveredUniverses[u].packetCount > 0
    /\ \E a \in ArtNetAddresses : artnet.discoveredNodes[a].known

\* the step delivers a datagram of the transmitter, and the receiver emits a
\* packet with the universe and the channels send was called with and with
\* the count of the datagrams sent before it, modulo 256, as its sequence
WireRoundTrip ==
    (lastOp'.op = "message" /\ wire.inFlight # <<>> /\ wire'.inFlight = <<>>) =>
        /\ ~lastOp'.threw
        /\ \E i \in 1..Len(emitted') :
            /\ emitted'[i].event = "packet"
            /\ emitted'[i].universe = wire.inFlight[1].universe
            /\ emitted'[i].channels = wire.inFlight[1].channels
            /\ emitted'[i].sequence = wire.inFlight[1].count % 256

\* C21: the datagram ArtNetTransmitter.send builds for universe U and the
\* 512 channels D is accepted by handleMessage and decoded to a packet with
\* universe U and channels D, and its sequence byte is the transmitter's
\* send counter modulo 256.
C21_WireRoundTrip == [][WireRoundTrip]_vars

\* the 257th datagram, of universe 63999, has been received with sequence 0
C21_Witness ==
    /\ lastOp.op = "message"
    /\ wire.sends = 257
    /\ wire.inFlight = <<>>
    /\ Len(emitted) = 1
    /\ emitted[1].event = "packet"
    /\ emitted[1].universe = 63999
    /\ emitted[1].sequence = 0
    /\ emitted[1].channels[512] = 0

(***************************************************************************)
(* Art-Net discovery                                                       *)
(***************************************************************************)
\* the ip of the nodes of the table
KnownNodes(h) == {a \in DOMAIN h.discoveredNodes : h.discoveredNodes[a].known}

\* C22: every node that is in the node table when startDiscovery is called
\* is still in the node table while and after the new discovery runs.
C22_DiscoveryKeepsNodes ==
    [][lastOp'.op = "startDiscovery" => KnownNodes(artnet) \subseteq KnownNodes(artnet')]_vars

\* what the last call of startDiscovery that waited for its timeout returned
RECURSIVE LastTimedOut(_)
LastTimedOut(returned) ==
    IF returned = <<>> THEN [nodes |-> {}, immediate |-> FALSE, none |-> TRUE]
    ELSE IF ~returned[Len(returned)].immediate
    THEN [nodes |-> returned[Len(returned)].nodes, immediate |-> FALSE, none |-> FALSE]
    ELSE LastTimedOut(SubSeq(returned, 1, Len(returned) - 1))

\* the step is the "message" listener called, with no discovery in progress
\* and after the timeout of one has fired, with a reply of a sender that is
\* not in the table
LateReplyStep ==
    /\ lastOp'.op = "message"
    /\ Len(lastOp'.msg) >= 207
    /\ HasArtNetHeader(lastOp'.msg)
    /\ WireOpCode(lastOp'.msg) = 8448
    /\ ~artnet.isDiscovering
    /\ ~LastTimedOut(discovery.returned).none
    /\ lastOp'.address \notin KnownNodes(artnet)

\* C23: an ArtPollReply from a new IP that arrives after a discovery's
\* timeout has fired is added to the live node table and 'nodeDiscovered' is
\* emitted, but the node list the timed-out startDiscovery call returned
\* does not contain that node.
C23_LateReplies ==
    [][LateReplyStep =>
        /\ lastOp'.address \in KnownNodes(artnet')
        /\ \E i \in 1..Len(emitted') :
            emitted'[i].event = "nodeDiscovered" /\ emitted'[i].ip = lastOp'.address
        /\ discovery'.returned = discovery.returned
        /\ lastOp'.address \notin LastTimedOut(discovery'.returned).nodes]_vars

\* a late reply of 10.0.0.2 has been added to the table after a discovery
\* that returned 10.0.0.1 only
C23_Witness ==
    /\ lastOp.op = "message"
    /\ lastOp.address = "10.0.0.2"
    /\ ~artnet.isDiscovering
    /\ KnownNodes(artnet) = {"10.0.0.1", "10.0.0.2"}
    /\ ~LastTimedOut(discovery.returned).none
    /\ LastTimedOut(discovery.returned).nodes = {"10.0.0.1"}
    /\ Len(emitted) = 1
    /\ emitted[1].event = "nodeDiscovered"

\* a call of startDiscovery on a running handler with no discovery in
\* progress sends one ArtPoll, and the timeout returns the senders of the
\* replies received since; a call during a discovery sends nothing, leaves
\* the handler as it was and returns the nodes at once; a call on a handler
\* that is not running throws, sends nothing and leaves the handler as it was
DiscoveryStep ==
    /\ (lastOp'.op = "startDiscovery" /\ artnet.isRunning /\ ~artnet.isDiscovering) =>
            /\ ~lastOp'.threw
            /\ discovery'.polls = discovery.polls + 1
            /\ discovery'.returned = discovery.returned
            /\ artnet'.discoveryTimer # -1
    /\ lastOp'.op = "discoveryTimeout" =>
            /\ Len(discovery'.returned) = Len(discovery.returned) + 1
            /\ discovery'.returned[Len(discovery'.returned)].nodes = discovery.replied
            /\ discovery'.polls = discovery.polls
    /\ (lastOp'.op = "startDiscovery" /\ artnet.isRunning /\ artnet.isDiscovering) =>
            /\ ~lastOp'.threw
            /\ discovery'.polls = discovery.polls
            /\ artnet' = artnet
            /\ discovery'.returned =
                    Append(discovery.returned,
                           [nodes |-> KnownNodes(artnet), immediate |-> TRUE])
    /\ (lastOp'.op = "startDiscovery" /\ ~artnet.isRunning) =>
            /\ lastOp'.threw
            /\ discovery'.polls = discovery.polls
            /\ discovery'.returned = discovery.returned
            /\ artnet' = artnet

C26_StopCancelsTimers ==
    [][(lastOp'.op = "artnetStop" /\ lastOp'.wasRunning) =>
        (~artnet'.isDiscovering /\ artnet'.discoveryTimer = -1)]_vars

(***************************************************************************)
(* stop() of a stopped component                                           *)
(***************************************************************************)
\* op is what a stop() of the player leaves in lastOp
IsPlayerStop(op) == op.op = "stop" /\ "from" \in DOMAIN op

\* the step is stop() of a transport that is not running, and it raises
\* nothing and leaves the transport as it was
TransportStopAgain ==
    /\ (lastOp'.op = "sacnStop" /\ ~handler.isRunning) =>
            (~lastOp'.threw /\ handler' = handler /\ emitted' = <<>>)
    /\ (lastOp'.op = "artnetStop" /\ ~artnet.isRunning) =>
            (~lastOp'.threw /\ artnet' = artnet /\ emitted' = <<>>)
    /\ (lastOp'.op = "transmitterStop" /\ ~tx.artnet.isRunning) =>
            (~lastOp'.threw /\ tx' = tx)
    /\ (lastOp'.op = "sacnTransmitterStop" /\ ~tx.sacn.isRunning) =>
            (~lastOp'.threw /\ tx' = tx)

\* C25 as stated: stop() of a stopped SACNHandler, ArtNetHandler,
\* ArtNetTransmitter or SACNTransmitter, or of a DMXPlayer in state idle,
\* raises no error and leaves the component's state unchanged.
C25_StopOfIdleIsNoOp ==
    [][/\ TransportStopAgain
       /\ (IsPlayerStop(lastOp') /\ player.state = "idle") => player' = player]_vars

\* C25: stop() of a stopped SACNHandler, ArtNetHandler, ArtNetTransmitter or
\* SACNTransmitter, or of a DMXPlayer whose last call was stop(), raises no
\* error and leaves the component's state unchanged; stop() of any DMXPlayer
\* in state idle leaves it idle, at frame offset 0 and position 0 with all
\* channels zero.
C25_DoubleStopIsNoOp ==
    [][/\ TransportStopAgain
       /\ (IsPlayerStop(lastOp') /\ IsPlayerStop(lastOp)) => player' = player
       /\ (IsPlayerStop(lastOp') /\ player.state = "idle") =>
            /\ player'.state = "idle"
            /\ player'.frameOffset = 0
            /\ player'.currentPosition = 0
            /\ \A c \in 1..Len(player'.channels) : player'.channels[c] = 0
            /\ \A i \in 1..Len(emitted') : emitted'[i].event # "stateChange"]_vars

\* stop() has been called on an idle player that holds a recording, where
\* the Art-Net transmitter is constructed and no transport is running
C25_Witness ==
    /\ IsPlayerStop(lastOp)
    /\ lastOp.from = "idle"
    /\ player.header # NoHeader
    /\ player.frameData # <<>>
    /\ tx.artnet.universe # NoUniverse
    /\ ~handler.isRunning
    /\ ~artnet.isRunning
    /\ ~tx.artnet.isRunning
    /\ ~tx.sacn.isRunning

(***************************************************************************)
(* The header of the file being recorded                                   *)
(***************************************************************************)
\* the file holds a header whose duration and frame count are both zero
ProvisionalHeader(buffer) ==
    /\ Len(buffer) >= HEADER_SIZE
    /\ parseHeader(buffer).duration = 0
    /\ parseHeader(buffer).frameCount = 0

\* the step is a stopRecording() that closes the recording: the buffered
\* bytes are on disk behind the header unchanged, and the header holds the
\* frames written and the time since startRecording
HeaderRewritten ==
    (lastOp'.op = "stopRecording" /\ ~lastOp'.threw) =>
        /\ SubSeq(disk', HEADER_SIZE + 1, Len(disk'))
             = SubSeq(disk \o recorder.writeBuffer, HEADER_SIZE + 1,
                      Len(disk) + Len(recorder.writeBuffer))
        /\ parseHeader(disk').frameCount = Len(written.frames)
        /\ parseHeader(disk').duration = now - recorder.startTime
        /\ recorder'.fileHandle = NULL
        /\ recorder'.writeBuffer = <<>>

\* C27: from startRecording until stopRecording the header at offset 0 of
\* the file has duration 0 and frame_count 0, and stopRecording flushes the
\* buffered frame bytes, rewrites the header with the frames written and the
\* time recorded, leaves the frame bytes as they were and closes the file.
C27_HeaderLifecycle ==
    /\ [](recorder.state = "recording" => ProvisionalHeader(disk))
    /\ [][HeaderRewritten]_vars

(***************************************************************************)
(* The frame codec at the full width of 512 channels.  writeDeltaFrame and *)
(* readNextFrame do not depend on the width of the channel array: here     *)
(* they are applied to the changes between two arrays of 512 channels.     *)
(* lastOp carries the frame from the recorder to the player.               *)
(***************************************************************************)
\* the numbers of channels that change in one frame
DeltaCounts == 1..ARTNET_TOTAL_CHANNELS

\* the times between two frames, in ms: one, two and three bytes of varint
DeltaTimes == {0, 4999, 16384}

\* what follows the frame in the file: nothing, or the next frame
FrameTails == {<<>>, <<25, 1, 0, 0, 255>>}

\* the value a changed channel takes: never the 0 it had
NewValue(channel) == (channel % 255) + 1

\* 512 channels of which count differ from zero: the lowest ones, or the
\* highest ones
LitChannels(count, lowest) ==
    [i \in 1..ARTNET_TOTAL_CHANNELS |->
        IF (lowest /\ i <= count) \/ (~lowest /\ i > ARTNET_TOTAL_CHANNELS - count)
        THEN NewValue(i - 1) ELSE 0]

\* the loop of recordFrame stopped one channel early
RECURSIVE ChangesOf_SkipLast(_, _, _, _)
ChangesOf_SkipLast(channels, previousChannels, from, to) ==
    IF from >= to \/ from >= Len(channels) - 1 THEN <<>>
    ELSE IF to = from + 1
    THEN IF channels[from + 1] # previousChannels[from + 1]
         THEN <<[channel |-> from, value |-> channels[from + 1]]>>
         ELSE <<>>
    ELSE ChangesOf_SkipLast(channels, previousChannels, from, (from + to) \div 2)
           \o ChangesOf_SkipLast(channels, previousChannels, (from + to) \div 2, to)

\* the changes that the loop "for (let i = 0; i < TOTAL_CHANNELS; i++)" of
\* recordFrame pushes for the channels from..to-1, in its order; the range
\* is halved so that 512 channels are evaluated nine levels deep
RECURSIVE ChangesOf(_, _, _, _)
ChangesOf(channels, previousChannels, from, to) ==
    IF from >= to THEN <<>>
    ELSE IF to = from + 1
    THEN IF channels[from + 1] # previousChannels[from + 1]
         THEN <<[channel |-> from, value |-> channels[from + 1]]>>
         ELSE <<>>
    ELSE ChangesOf(channels, previousChannels, from, (from + to) \div 2)
           \o ChangesOf(channels, previousChannels, (from + to) \div 2, to)

\* a recorder in the middle of a recording with nothing buffered
RecorderAtWork ==
    [rec |-> [RecorderInit EXCEPT !.state = "recording", !.fileHandle = "fd",
                                  !.frameCount = 1],
     disk |-> <<>>]

\* a player that has loaded frameData
PlayerOf(frameData) ==
    [PlayerInit EXCEPT !.header = parseHeader(createHeader(RecorderInit, 0)),
                       !.frameData = frameData]

\* the bytes writeDeltaFrame adds to the file, buffered or flushed
DeltaFrameBytes(changes, deltaTime) ==
    LET w == writeDeltaFrame(RecorderAtWork, changes, deltaTime)
    IN w.disk \o w.rec.writeBuffer

\* recordFrame writes the delta frame of a 512-channel array that differs
\* from the previous one
WriteDelta(counts, times) ==
    /\ lastOp.op = "init"
    /\ \E count \in counts, deltaTime \in times, lowest \in BOOLEAN :
         \E channels \in {LitChannels(count, lowest)} :
         \E changes \in {ChangesOf(channels, LitChannels(0, TRUE), 0, Len(channels))} :
            /\ Len(changes) > 0
            /\ lastOp' = [op |-> "writeDeltaFrame",
                          channels |-> channels,
                          previousChannels |-> LitChannels(0, TRUE),
                          changes |-> changes,
                          deltaTime |-> deltaTime,
                          bytes |-> DeltaFrameBytes(changes, deltaTime)]
    /\ UNCHANGED <<now, emitted, sacnVars, recVars, artnetVars>>

\* the player reads the frame back with readNextFrame
ReadDelta(tails) ==
    /\ lastOp.op = "writeDeltaFrame"
    /\ \E tail \in tails :
         \E read \in {readNextFrame(PlayerOf(lastOp.bytes \o tail))} :
            lastOp' = [op |-> "readNextFrame",
                       changes |-> lastOp.changes,
                       deltaTime |-> lastOp.deltaTime,
                       bytes |-> lastOp.bytes,
                       tail |-> tail,
                       frame |-> read.frame,
                       frameOffset |-> read.p.frameOffset]
    /\ UNCHANGED <<now, emitted, sacnVars, recVars, artnetVars>>

EncodeDelta == WriteDelta(DeltaCounts, DeltaTimes)

DecodeDelta == ReadDelta(FrameTails)

NextDelta ==
    \/ EncodeDelta
    \/ DecodeDelta

\* delta frames of 512 channels written and read back
SpecDelta == Init /\ [][NextDelta]_vars

(***************************************************************************)
(* Delta frames                                                            *)
(***************************************************************************)
\* changes lists exactly the channels in which the two arrays differ, each
\* once, ascending, with the new value
ListsTheDifferences(changes, channels, previousChannels) ==
    /\ Len(changes) > 0
    /\ \A i \in 1..Len(changes) :
         /\ changes[i].channel \in 0..(ARTNET_TOTAL_CHANNELS - 1)
         /\ channels[changes[i].channel + 1] # previousChannels[changes[i].channel + 1]
         /\ changes[i].value = channels[changes[i].channel + 1]
         /\ i > 1 => changes[i - 1].channel < changes[i].channel
    /\ Len(changes) = Cardinality({c \in 1..ARTNET_TOTAL_CHANNELS :
                                      channels[c] # previousChannels[c]})

\* bytes is the varint of deltaTime, the count of the changes as one byte
\* below 254 and as 0xFF and a little-endian u16 from 254 on, and three
\* bytes for each change
CountEncoded(bytes, changes, deltaTime) ==
    LET at == Len(encodeVarint(deltaTime))
        n == Len(changes)
    IN /\ SubSeq(bytes, 1, at) = encodeVarint(deltaTime)
       /\ ByteAt(bytes, at) # FrameType_SNAPSHOT
       /\ IF n < 254
          THEN ByteAt(bytes, at) = n /\ Len(bytes) = at + 1 + 3 * n
          ELSE /\ ByteAt(bytes, at) = 255
               /\ ByteAt(bytes, at + 1) = n % 256
               /\ ByteAt(bytes, at + 2) = n \div 256
               /\ Len(bytes) = at + 3 + 3 * n

VarintUpperHalves == {0, 1, 15, 16, 2047, 2048, 4095, 4096, 32767, 32768, 65535}

VarintLowerHalves == {0, 1, 127, 128, 16383, 16384, 65535}

\* the offsets the varint is decoded at
VarintOffsets == {0, 1}

\* encodeVarint(hi * 65536 + lo): "value > 0x7F", "value & 0x7F" and
\* "value >>>= 7" on the two halves
RECURSIVE encodeVarintHalves(_, _)
encodeVarintHalves(hi, lo) ==
    IF hi > 0 \/ lo > 127
    THEN <<(lo % 128) + 128>>
           \o encodeVarintHalves(hi \div 128, (lo \div 128) + 512 * (hi % 128))
    ELSE <<lo % 128>>

\* encodeVarint of a value drawn from the halves
EncodeVarintCall(uppers, lowers) ==
    /\ lastOp.op = "init"
    /\ \E hi \in uppers, lo \in lowers :
         lastOp' = [op |-> "encodeVarint", hi |-> hi, lo |-> lo,
                    bytes |-> encodeVarintHalves(hi, lo)]
    /\ UNCHANGED <<now, emitted, sacnVars, recVars, artnetVars>>

\* decodeVarint(buffer, offset) of a buffer that holds the bytes emitted at
\* offset, behind a byte with the high bit set and before the next frame's
DecodeVarintCall(offsets) ==
    /\ lastOp.op = "encodeVarint"
    /\ \E offset \in offsets :
         \E result \in {decodeVarint([i \in 1..offset |-> 255] \o lastOp.bytes \o <<254>>,
                                      offset)} :
            lastOp' = [op |-> "decodeVarint", hi |-> lastOp.hi, lo |-> lastOp.lo,
                       bytes |-> lastOp.bytes, offset |-> offset,
                       value |-> result.value, bytesRead |-> result.bytesRead]
    /\ UNCHANGED <<now, emitted, sacnVars, recVars, artnetVars>>

EncodeVarint == EncodeVarintCall(VarintUpperHalves, VarintLowerHalves)

DecodeVarint == DecodeVarintCall(VarintOffsets)

NextVarint ==
    \/ EncodeVarint
    \/ DecodeVarint

\* one value encoded as a varint and decoded again
SpecVarint == Init /\ [][NextVarint]_vars

\* the positions of the one bits of hi * 65536 + lo
BitsOfHalves(hi, lo) == BitsFrom(lo, 0) \cup {k + 16 : k \in BitsFrom(hi, 0)}

\* bytes holds the 7-bit groups of the bits, the lowest first, up to the
\* highest group that is not zero, with the high bit set on every byte but
\* the last
GroupsLowFirst(bytes, bits) ==
    /\ Len(bytes) >= 1
    /\ \A i \in 1..Len(bytes) :
         /\ (bytes[i] >= 128) <=> (i < Len(bytes))
         /\ BitsFrom(bytes[i] % 128, 0)
              = {k - 7 * (i - 1) : k \in {b \in bits : b \div 7 = i - 1}}
    /\ \A b \in bits : b \div 7 < Len(bytes)
    /\ Len(bytes) > 1 => bytes[Len(bytes)] # 0

\* value is hi * 65536 + lo
IsValueOf(value, hi, lo) == hi < 32768 /\ value = hi * 65536 + lo

\* C29: for every unsigned n of 32 bits encodeVarint(n) emits the 7-bit
\* groups of n low-order first with the high bit set on every byte except
\* the last, and decodeVarint of those bytes returns the value n and as
\* bytesRead the number of bytes emitted.
C29_VarintRoundTrip ==
    /\ lastOp.op = "encodeVarint" =>
         GroupsLowFirst(lastOp.bytes, BitsOfHalves(lastOp.hi, lastOp.lo))
    /\ lastOp.op = "decodeVarint" =>
         /\ lastOp.bytesRead = Len(lastOp.bytes)
         /\ IsValueOf(lastOp.value, lastOp.hi, lastOp.lo)

(***************************************************************************)
(* The header over the full width of its fields.  A start time, a duration *)
(* or a frame count is held in digits of 16 bits, the lowest first, since  *)
(* the values from 2^31 on are no signed integers of 32 bits: two digits   *)
(* for a field of 32 bits, four for the start time.                        *)
(***************************************************************************)
\* the protocol and the universe given to startRecording
HeaderProtocols == {"sacn", "artnet"}

HeaderUniverses == {0, 1, 256, 63999}

\* Date.now() at startRecording: 0, a day of 2024, the largest safe integer
HeaderStartTimes == {<<0, 0, 0, 0>>, <<29696, 52061, 402, 0>>, <<65535, 65535, 65535, 31>>}

\* the duration in ms: 0, 5 s, 2^31 and 2^32 - 1
HeaderDurations == {<<0, 0>>, <<5000, 0>>, <<0, 32768>>, <<65535, 65535>>}

\* the frame count: 0, 1, 65536 and 2^32 - 1
HeaderFrameCounts == {<<0, 0>>, <<1, 0>>, <<0, 1>>, <<65535, 65535>>}

\* what has happened to the file before it is loaded
HeaderDamages ==
    {"none", "version 0", "empty", "short", "magic", "magic high bit", "version 2"}

\* writeUInt32LE / writeBigInt64LE of a value held in digits
RECURSIVE WriteDigitsLE(_)
WriteDigitsLE(digits) ==
    IF digits = <<>> THEN <<>>
    ELSE UInt16LE(Head(digits)) \o WriteDigitsLE(Tail(digits))

\* readUInt32LE (count 2) / readBigInt64LE (count 4) as digits
ReadDigitsLE(buffer, offset, count) ==
    [i \in 1..count |-> ReadUInt16LE(buffer, offset + 2 * (i - 1))]

\* createHeader(duration) of a recorder whose startTime and frameCount are
\* held in digits
createHeaderOf(protocol, universe, startTime, duration, frameCount) ==
    DMXREC_MAGIC
      \o <<DMXREC_VERSION, HAS_SNAPSHOTS, IF protocol = "sacn" THEN 0 ELSE 1>>
      \o UInt16LE(universe)
      \o WriteDigitsLE(startTime)
      \o WriteDigitsLE(duration)
      \o WriteDigitsLE(frameCount)
      \o <<0, 0, 0, 0, 0, 0, 0>>

\* the header parseHeader returns, with startTime, duration and frameCount
\* in digits
parseHeaderOf(buffer) ==
    [magic |-> AsciiSlice(buffer, 0, 4),
     version |-> ByteAt(buffer, 4),
     flags |-> ByteAt(buffer, 5),
     protocol |-> ByteAt(buffer, 6),
     universe |-> ReadUInt16LE(buffer, 7),
     startTime |-> ReadDigitsLE(buffer, 9, 4),
     duration |-> ReadDigitsLE(buffer, 17, 2),
     frameCount |-> ReadDigitsLE(buffer, 21, 2)]

\* the file after the damage
Damaged(file, damage) ==
    CASE damage = "none" -> file
      [] damage = "version 0" -> [file EXCEPT ![5] = 0]
      [] damage = "empty" -> <<>>
      [] damage = "short" -> SubSeq(file, 1, HEADER_SIZE - 1)
      [] damage = "magic" -> [file EXCEPT ![4] = 114]
      [] damage = "magic high bit" -> [file EXCEPT ![1] = 196]
      [] damage = "version 2" -> [file EXCEPT ![5] = DMXREC_VERSION + 1]

\* the recorder writes a header, followed by one snapshot frame, and the
\* file is damaged or not
WriteHeader(protocols, universes, startTimes, durations, frameCounts, damages) ==
    /\ lastOp.op = "init"
    /\ \E protocol \in protocols, universe \in universes, startTime \in startTimes,
          duration \in durations, frameCount \in frameCounts, damage \in damages :
         /\ isValidUniverse(universe)
         /\ lastOp' = [op |-> "createHeader", protocol |-> protocol,
                       universe |-> universe, startTime |-> startTime,
                       duration |-> duration, frameCount |-> frameCount,
                       damage |-> damage,
                       file |-> Damaged(createHeaderOf(protocol, universe, startTime,
                                                       duration, frameCount)
                                          \o <<0, FrameType_SNAPSHOT>> \o ZeroChannels,
                                        damage)]
    /\ UNCHANGED <<now, emitted, sacnVars, recVars, artnetVars>>

\* load(filePath) of the file by an idle player: parseHeader throws or
\* returns the header
LoadFile ==
    /\ lastOp.op = "createHeader"
    /\ lastOp' = [op |-> "loadFile",
                  written |-> [protocol |-> lastOp.protocol,
                               universe |-> lastOp.universe,
                               startTime |-> lastOp.startTime,
                               duration |-> lastOp.duration,
                               frameCount |-> lastOp.frameCount],
                  damage |-> lastOp.damage,
                  file |-> lastOp.file,
                  threw |-> ~ValidHeader(lastOp.file),
                  header |-> IF ValidHeader(lastOp.file)
                             THEN parseHeaderOf(lastOp.file) ELSE NoHeader]
    /\ UNCHANGED <<now, emitted, sacnVars, recVars, artnetVars>>

CreateHeader ==
    WriteHeader(HeaderProtocols, HeaderUniverses, HeaderStartTimes, HeaderDurations,
                HeaderFrameCounts, HeaderDamages)

NextHeader ==
    \/ CreateHeader
    \/ LoadFile

\* one header written and the file loaded
SpecHeader == Init /\ [][NextHeader]_vars

\* the file is shorter than the header, or does not begin with "DMXR", or
\* is of a version above 1
Rejected(file) ==
    \/ Len(file) < 32
    \/ SubSeq(file, 1, 4) # <<68, 77, 88, 82>>
    \/ file[5] > 1

\* C30: load() raises an error where the file is shorter than 32 bytes,
\* does not begin with "DMXR" or has a version byte above 1; of a header the
\* recorder has written parseHeader returns the protocol code (0 for sACN,
\* 1 for Art-Net), the universe, the start time, the duration and the frame
\* count that were written.
C30_HeaderRoundTrip ==
    lastOp.op = "loadFile" =>
        /\ Rejected(lastOp.file) => lastOp.threw
        /\ lastOp.damage = "none" =>
             /\ ~lastOp.threw
             /\ lastOp.header.protocol = (IF lastOp.written.protocol = "sacn" THEN 0 ELSE 1)
             /\ lastOp.header.universe = lastOp.written.universe
             /\ lastOp.header.startTime = lastOp.written.startTime
             /\ lastOp.header.duration = lastOp.written.duration
             /\ lastOp.header.frameCount = lastOp.written.frameCount

(***************************************************************************)
(* The tables of the universes discovered, of both handlers                *)
(***************************************************************************)
\* The monitor listens with the handler of the protocol chosen, so a run
\* uses one of the two handlers and leaves the other as constructed.
UsesSacn == artnet = ArtNetInit

UsesArtNet == handler = HandlerInit

SacnHandlerStart == UsesSacn /\ Start

SacnHandlerStop == UsesSacn /\ Stop

SacnHandlerReceive == UsesSacn /\ ReceiveTwoUniverses

ArtNetHandlerStart == UsesArtNet /\ ArtNetStart

ArtNetHandlerStop == UsesArtNet /\ ArtNetStop

ArtNetHandlerReceive == UsesArtNet /\ ArtNetReceive

NextUniverses ==
    \/ SacnHandlerStart
    \/ SacnHandlerStop
    \/ SacnHandlerReceive
    \/ ArtNetHandlerStart
    \/ ArtNetHandlerStop
    \/ ArtNetHandlerReceive

\* the handler of either protocol started, stopped and receiving, with the
\* clock standing
SpecUniverses == Init /\ [][NextUniverses]_vars

\* the step is a packet of a valid universe handled by the sACN handler
SacnCounts(universe) == lastOp'.op = "packet" /\ lastOp'.universe = universe

\* the step is a valid ArtDmx datagram of the universe handled by the
\* Art-Net handler
ArtNetCounts(universe) ==
    /\ lastOp'.op = "message"
    /\ ValidArtDmx(lastOp'.msg)
    /\ WireUniverse(lastOp'.msg) = universe

\* the step is one of the Art-Net handler, whose events emitted' holds
ArtNetStep == lastOp'.op \in {"message", "artnetStart", "artnetStop"}

\* how often the step emits 'universeDiscovered' for the universe
DiscoveredEvents(universe) ==
    Cardinality({i \in 1..Len(emitted') :
                    /\ emitted'[i].event = "universeDiscovered"
                    /\ emitted'[i].universe = universe})

\* the entry of a universe counts one more where the step handles a valid
\* packet of it and stays as it is in every other step, and the handler
\* (the step is its own where mine holds) announces the universe once, by
\* the packet that creates the entry
UpsertStep(table, tableAfter, universe, counts, mine) ==
    /\ tableAfter[universe].packetCount
         = table[universe].packetCount + (IF counts THEN 1 ELSE 0)
    /\ ~counts => tableAfter[universe] = table[universe]
    /\ mine => DiscoveredEvents(universe)
                 = (IF counts /\ table[universe].packetCount = 0 THEN 1 ELSE 0)

\* C31: in each handler the table of discovered universes holds one entry
\* for every valid universe observed, 'universeDiscovered' is emitted once
\* per universe, by its first valid packet, the entry's packetCount is the
\* number of valid packets of the universe, with the sACN packets that the
\* arbitration suppresses, and no entry is removed, also not by stop() and
\* start().
C31_UniverseTableUpsert ==
    [][/\ \A u \in DOMAIN handler.discoveredUniverses :
             UpsertStep(handler.discoveredUniverses, handler'.discoveredUniverses, u,
                        SacnCounts(u), ~ArtNetStep)
       /\ \A u \in DOMAIN artnet.discoveredUniverses :
             UpsertStep(artnet.discoveredUniverses, artnet'.discoveredUniverses, u,
                        ArtNetCounts(u), ArtNetStep)
       /\ DOMAIN handler'.discoveredUniverses = DOMAIN handler.discoveredUniverses
       /\ DOMAIN artnet'.discoveredUniverses = DOMAIN artnet.discoveredUniverses]_vars

\* a packet of universe 1 that the arbitration suppresses has been counted
\* as the second of its universe by a handler that knows both universes
C31_Witness ==
    /\ lastOp.op = "packet"
    /\ lastOp.universe = 1
    /\ \A i \in 1..Len(emitted) : emitted[i].event \notin {"packet", "universeDiscovered"}
    /\ handler.discoveredUniverses[1].packetCount = 2
    /\ handler.discoveredUniverses[2].packetCount = 1
    /\ handler.isRunning

(***************************************************************************)
(* The speed controls of DMXPlayer                                         *)
(***************************************************************************)
\* the speed presets, in hundredths
SPEED_PRESETS == <<25, 50, 75, 100, 150, 200, 400>>

\* the numbers given to setSpeed: below the range, in it beside the presets,
\* above the highest preset, above the range, and parseFloat's result for a
\* text without a number
SpeedNumbers == {Num(0 - 100), Num(5), Num(30), Num(100), Num(500), Num(2000), NaN}

\* SPEED_PRESETS.findIndex(s => s >= speed), counted from 0; -1 where no
\* preset passes the test, as for NaN, with which every comparison is false
findIndex(speed) ==
    LET passing == {i \in 1..Len(SPEED_PRESETS) :
                       ~speed.nan /\ SPEED_PRESETS[i] >= speed.hundredths}
    IN IF passing = {} THEN 0 - 1
       ELSE (CHOOSE i \in passing : \A j \in passing : i <= j) - 1

\* SPEED_PRESETS[index] ?? speed, index counted from 0
PresetOr(index, speed) ==
    IF index + 1 \in 1..Len(SPEED_PRESETS) THEN Num(SPEED_PRESETS[index + 1]) ELSE speed

\* the speed after increaseSpeed()
increaseSpeed(speed) ==
    LET currentIndex == findIndex(speed)
    IN IF currentIndex < Len(SPEED_PRESETS) - 1
       THEN setSpeed(PresetOr(currentIndex + 1, speed))
       ELSE speed

\* the speed after decreaseSpeed()
decreaseSpeed(speed) ==
    LET currentIndex == findIndex(speed)
    IN IF currentIndex > 0
       THEN setSpeed(PresetOr(currentIndex - 1, speed))
       ELSE IF currentIndex = 0 - 1
       THEN setSpeed(PresetOr(Len(SPEED_PRESETS) - 1, speed))
       ELSE speed

\* a speed control leaves everything but the speed as it is
SpeedControl(op, speed) ==
    /\ player' = [player EXCEPT !.speed = speed]
    /\ lastOp' = op
    /\ emitted' = <<>>
    /\ UNCHANGED <<now, sacnVars, recorder, disk, written, played, artnetVars>>

\* setSpeed(speed), in any state of the player
SetAnySpeed ==
    \E speed \in SpeedNumbers :
        SpeedControl([op |-> "setSpeed", speed |-> speed], setSpeed(speed))

\* increaseSpeed()
IncreaseSpeed ==
    SpeedControl([op |-> "increaseSpeed", from |-> player.speed],
                 increaseSpeed(player.speed))

\* decreaseSpeed()
DecreaseSpeed ==
    SpeedControl([op |-> "decreaseSpeed", from |-> player.speed],
                 decreaseSpeed(player.speed))

NextSpeed ==
    \/ StartRecording
    \/ RecordBrief
    \/ StopRecording
    \/ Load
    \/ Play
    \/ Pause
    \/ PlayerStop
    \/ FrameTimer
    \/ SetAnySpeed
    \/ IncreaseSpeed
    \/ DecreaseSpeed

\* one recording made, then loaded and played, with the speed controls used
\* in every state of the player
SpecSpeed == Init /\ [][NextSpeed]_vars

\* the step is a call of one of the three speed controls
SpeedStep == lastOp'.op \in {"setSpeed", "increaseSpeed", "decreaseSpeed"}

\* 0.1 <= speed <= 10.0
InSpeedRange(speed) ==
    /\ ~speed.nan
    /\ MIN_SPEED <= speed.hundredths
    /\ speed.hundredths <= MAX_SPEED

\* C32: after every setSpeed(x) with a number x, increaseSpeed() and
\* decreaseSpeed(), in any state of the player, 0.1 <= speed <= 10.0, and
\* setSpeed changes neither the state, nor the position, nor the read
\* offset, nor the channels.
C32_SpeedRange ==
    [][SpeedStep =>
          /\ InSpeedRange(player'.speed)
          /\ lastOp'.op = "setSpeed" =>
                /\ player'.state = player.state
                /\ player'.currentPosition = player.currentPosition
                /\ player'.frameOffset = player.frameOffset
                /\ player'.channels = player.channels]_vars

\* C34: from every speed in 0.1 .. 10.0, a preset or not, increaseSpeed()
\* does not lower the speed and decreaseSpeed() does not raise it.
C34_SpeedStepsMonotone ==
    [][InSpeedRange(player.speed) =>
          /\ lastOp'.op = "increaseSpeed"
                => player'.speed.hundredths >= player.speed.hundredths
          /\ lastOp'.op = "decreaseSpeed"
                => player'.speed.hundredths <= player.speed.hundredths]_vars

(***************************************************************************)
(* Playback interrupted by pause() and resumed by play()                   *)
(***************************************************************************)
\* the callback of the frame timer up to its call of scheduleNextFrame
ApplyPending(p) ==
    [p EXCEPT !.channels = ApplyFrame(@, p.playbackTimer.frame),
              !.currentFrame = @ + 1,
              !.playbackTimer = NoTimer]

\* the player after its frame timer has fired until none is pending
RECURSIVE PlayToEnd(_)
PlayToEnd(p) ==
    IF p.playbackTimer.pending
    THEN PlayToEnd(scheduleNextFrame(ApplyPending(p), FALSE).p)
    ELSE p

\* the channels at the end of play() from the start with the timer firing
\* and no other call made
UninterruptedChannels(p) ==
    PlayToEnd(PlayFrom([p EXCEPT !.state = "idle", !.playbackTimer = NoTimer]).p).channels

\* the offset of the n-th frame of the stream, read from p on
RECURSIVE NthFrameOffset(_, _)
NthFrameOffset(p, n) ==
    LET read == readNextFrame(p)
    IN IF read.frame = NoFrame THEN NoOffset
       ELSE IF n = 1 THEN read.frame.offset
       ELSE NthFrameOffset(read.p, n - 1)

\* C33: under every interleaving of pause() and play() with the firings of
\* the frame timer, no seek and loop disabled, every recorded frame is
\* applied once and in stream order (the frame a timer holds is the one
\* that follows the frames applied), so the channels of the finished player
\* are those of uninterrupted playback.
C33_PauseResumeLosesNoFrame ==
    /\ player.playbackTimer.pending
         => player.playbackTimer.frame.offset
              = NthFrameOffset([player EXCEPT !.frameOffset = 0], player.currentFrame + 1)
    /\ player.state = "finished" => player.channels = UninterruptedChannels(player)

\* C35: for every loaded recording and every loop setting, also a recording
\* of no frame with loop enabled, play() returns with one frame timer
\* pending or with the player finished.
C35_PlayTerminates ==
    [][(lastOp'.op = "play" /\ IsLoaded(player))
       => (/\ ~lastOp'.threw
           /\ player'.playbackTimer.pending \/ player'.state = "finished")]_vars

\* C36: over the calls of play, pause, togglePlayPause, stop, seek, setSpeed
\* and load made between the firings of the timer, at most one frame timer
\* is pending (no pending timer has lost its handle), a frame timer is
\* pending only while the state is playing, and the timer applies no frame
\* while the state is idle, paused or finished.
C36_SinglePlaybackTimer ==
    /\ [](player.orphanTimers = 0)
    /\ [](player.playbackTimer.pending => player.state = "playing")
    /\ [][lastOp'.op = "frameTimer" => player.state = "playing"]_vars

\* play() has resumed a paused player in the middle of a recording and the
\* timer of the next frame is the one pending
C36_Witness ==
    /\ lastOp.op = "play"
    /\ lastOp.resumed
    /\ player.state = "playing"
    /\ player.playbackTimer.pending
    /\ player.playbackTimer.frame.offset > 0
    /\ player.orphanTimers = 0

(***************************************************************************)
(* The frame stream of the file, told from the frames alone                *)
(***************************************************************************)
\* channel (16 bits, low byte first) and value of the changes from i on
RECURSIVE ChangeBytes(_, _)
ChangeBytes(changes, i) ==
    IF i > Len(changes) THEN <<>>
    ELSE UInt16LE(changes[i].channel) \o <<changes[i].value>> \o ChangeBytes(changes, i + 1)

\* the bytes of one frame of the format: the varint of the time since the
\* frame before, then the marker and all channels, or the count and the
\* changes
FrameEncoding(isSnapshot, channels, changes, deltaTime) ==
    encodeVarint(deltaTime) \o
    (IF isSnapshot
     THEN <<FrameType_SNAPSHOT>> \o SubSeq(channels, 1, TOTAL_CHANNELS)
     ELSE (IF Len(changes) < FrameType_SNAPSHOT
           THEN <<Len(changes)>>
           ELSE <<FrameType_EXTENDED>> \o UInt16LE(Len(changes)))
          \o ChangeBytes(changes, 1))

\* the encodings of the frames k, k + 1, ... one after the other; the first
\* frame and a frame 5000 ms or more after the last snapshot are snapshots
RECURSIVE StreamOf(_, _, _, _)
StreamOf(frames, k, previousChannels, lastSnapshotTime) ==
    IF k > Len(frames) THEN <<>>
    ELSE LET frame == frames[k]
             isSnapshot == k = 1 \/ frame.time - lastSnapshotTime >= SNAPSHOT_INTERVAL
         IN FrameEncoding(isSnapshot, frame.channels,
                          ComputeChanges(frame.channels, previousChannels, 0),
                          IF k = 1 THEN 0 ELSE frame.time - frames[k - 1].time)
            \o StreamOf(frames, k + 1, frame.channels,
                        IF isSnapshot THEN frame.time ELSE lastSnapshotTime)

\* stopRecording has just returned
Stopped == lastOp.op = "stopRecording" /\ ~lastOp.threw

\* C37: the file after stopRecording is the 32-byte header followed by the
\* encodings of all written frames in the order recordFrame produced them
\* (while recording, the file and the buffer together hold them), the write
\* offset does not exceed the buffer size, and the bytesWritten that
\* stopRecording reports is the length of the file.
C37_WriteBufferPreservesStream ==
    /\ (recorder.state = "recording" \/ Stopped)
         => /\ Len(disk) >= HEADER_SIZE
            /\ SubSeq(disk, HEADER_SIZE + 1, Len(disk)) \o recorder.writeBuffer
                 = StreamOf(written.frames, 1, ZeroChannels, 0)
    /\ Stopped
         => /\ recorder.writeBuffer = <<>>
            /\ SubSeq(disk, 1, HEADER_SIZE) = createHeader(recorder, now - recorder.startTime)
            /\ recorder.bytesWritten = Len(disk)
    /\ writeOffset(recorder) <= WRITE_BUFFER_SIZE

\* a recording of two frames has been stopped whose first frame was flushed
\* to the file while the second was written
C37_Witness ==
    /\ Stopped
    /\ Len(written.frames) = 2
    /\ Len(disk) > HEADER_SIZE + WRITE_BUFFER_SIZE
    /\ written.recordings = 2

(***************************************************************************)
(* load() of a file that cannot be loaded                                  *)
(***************************************************************************)
\* what is wrong with the file at the other path
LoadDamages == {"missing", "short", "magic", "version 2"}

\* load("other.dmxrec"), a path that holds no file or a damaged copy of the
\* recording: the call throws
LoadFailing ==
    /\ recorder.state = "idle"
    /\ disk # <<>>
    /\ \E damage \in LoadDamages :
          LoadPath("other.dmxrec",
                   IF damage = "missing" THEN Unreadable ELSE FileOf(Damaged(disk, damage)))

NextLoad ==
    \/ StartRecording
    \/ RecordBrief
    \/ StopRecording
    \/ Load
    \/ Play
    \/ Pause
    \/ FrameTimer
    \/ LoadFailing

\* one recording made, loaded and played, and a load that fails
SpecLoad == Init /\ [][NextLoad]_vars

\* C38: a load(path) that throws, on a player that has a recording loaded
\* and is not playing, leaves header, frame data, the file path that
\* getStats reports, position, channels and state as they were.
C38_FailedLoadLeavesPlayer ==
    [][(/\ lastOp'.op = "load"
        /\ lastOp'.threw
        /\ IsLoaded(player)
        /\ player.state # "playing")
       => (/\ player'.header = player.header
           /\ player'.frameData = player.frameData
           /\ player'.filePath = player.filePath
           /\ player'.currentPosition = player.currentPosition
           /\ player'.channels = player.channels
           /\ player'.state = player.state)]_vars

(***************************************************************************)
(* start() and stop() of ArtNetHandler with their completions.             *)
(* artnet.socket is the state of the socket that this.socket refers to:    *)
(* "none" (null), "binding" (created, bind under way), "bound", "closing"  *)
(* (close() called, 'close' not yet emitted) or "closed".  A socket that   *)
(* this.socket no longer refers to, because start() has assigned a new     *)
(* one, stays open with its listeners: orphansBinding and orphansBound     *)
(* count those.  The sockets are created with reuseAddr and bound with     *)
(* exclusive: false, so the bind of a second socket succeeds.              *)
(***************************************************************************)
\* cap of the sockets that this.socket no longer refers to
MaxOrphanSockets == 2

\* the call of start() or stop() issued last
LastCall == IF lastOp.op = "init" THEN "none" ELSE lastOp.lastCall

\* start() up to the call of bind: with isRunning it returns at once, else
\* it assigns a new socket to this.socket, whatever that holds
ArtNetStartCall ==
    /\ artnet.isRunning \/ artnet.socket \notin {"binding", "bound"}
          \/ artnet.orphansBinding + artnet.orphansBound < MaxOrphanSockets
    /\ artnet' = IF artnet.isRunning THEN artnet
                 ELSE [artnet EXCEPT
                          !.socket = "binding",
                          !.closeCallback = FALSE,
                          !.orphansBinding = IF artnet.socket = "binding" THEN @ + 1 ELSE @,
                          !.orphansBound = IF artnet.socket = "bound" THEN @ + 1 ELSE @]
    /\ emitted' = <<>>
    /\ lastOp' = [op |-> "artnetStartCall", lastCall |-> "start",
                  returned |-> artnet.isRunning]
    /\ UNCHANGED <<now, sacnVars, recVars, decoded, discovery, txVars>>

\* the callback of bind: isRunning = true unless this.socket is null
BindCallback(h) == IF h.socket = "none" THEN h ELSE [h EXCEPT !.isRunning = TRUE]

\* the bind of the socket this.socket refers to completes
ArtNetBound ==
    /\ artnet.socket = "binding"
    /\ artnet' = BindCallback([artnet EXCEPT !.socket = "bound"])
    /\ emitted' = <<>>
    /\ lastOp' = [op |-> "artnetBound", lastCall |-> LastCall, orphan |-> FALSE]
    /\ UNCHANGED <<now, sacnVars, recVars, decoded, discovery, txVars>>

\* the bind of a socket that this.socket no longer refers to completes
ArtNetOrphanBound ==
    /\ artnet.orphansBinding > 0
    /\ artnet' = BindCallback([artnet EXCEPT !.orphansBinding = @ - 1,
                                             !.orphansBound = @ + 1])
    /\ emitted' = <<>>
    /\ lastOp' = [op |-> "artnetBound", lastCall |-> LastCall, orphan |-> TRUE]
    /\ UNCHANGED <<now, sacnVars, recVars, decoded, discovery, txVars>>

\* stop() up to the call of close: it returns at once unless isRunning and
\* this.socket are set; removeAllListeners takes the callbacks of bind and
\* of an earlier close off the socket, and close() of a socket closed
\* already raises
ArtNetStopCall ==
    /\ artnet' = IF ~artnet.isRunning \/ artnet.socket = "none" THEN artnet
                 ELSE IF artnet.socket \in {"closing", "closed"}
                 THEN [artnet EXCEPT !.closeCallback = FALSE]
                 ELSE [artnet EXCEPT !.socket = "closing", !.closeCallback = TRUE]
    /\ emitted' = <<>>
    /\ lastOp' = [op |-> "artnetStopCall", lastCall |-> "stop",
                  returned |-> ~artnet.isRunning \/ artnet.socket = "none",
                  threw |-> artnet.isRunning /\ artnet.socket \in {"closing", "closed"}]
    /\ UNCHANGED <<now, sacnVars, recVars, decoded, discovery, txVars>>

\* 'close' is emitted: the callback of close(), where it is still a listener,
\* sets this.socket = null and isRunning = false
ArtNetClosed ==
    /\ artnet.socket = "closing"
    /\ artnet' = IF artnet.closeCallback
                 THEN [artnet EXCEPT !.socket = "none", !.closeCallback = FALSE,
                                     !.isRunning = FALSE]
                 ELSE [artnet EXCEPT !.socket = "closed"]
    /\ emitted' = <<>>
    /\ lastOp' = [op |-> "artnetClosed", lastCall |-> LastCall]
    /\ UNCHANGED <<now, sacnVars, recVars, decoded, discovery, txVars>>

NextLifecycle ==
    \/ ArtNetStartCall
    \/ ArtNetBound
    \/ ArtNetOrphanBound
    \/ ArtNetStopCall
    \/ ArtNetClosed

\* start() and stop() called at any time, their binds and closes completing
\* at any time
SpecLifecycle == Init /\ [][NextLifecycle]_vars

\* the bound sockets of the handler that are not closed
BoundSockets == (IF artnet.socket = "bound" THEN 1 ELSE 0) + artnet.orphansBound

\* no bind and no close is under way
AllCompleted == artnet.socket \notin {"binding", "closing"} /\ artnet.orphansBinding = 0

\* C39: under every interleaving of start() and stop() with the completions
\* of bind and close, the handler has at most one open socket, isRunning
\* implies that a bound socket exists, and once all calls have completed
\* the handler is running exactly where the last call issued was start().
C39_ListenerLifecycle ==
    /\ BoundSockets <= 1
    /\ artnet.isRunning => (BoundSockets >= 1 \/ artnet.socket = "closing")
    /\ AllCompleted => (artnet.isRunning <=> LastCall = "start")

====
